---- MODULE Spec2Model ----
(***************************************************************************)
(* Batch sampler of dataset/embeddings_plus_lexical_knowledge.py:          *)
(* WordEmbeddingsAndHyponymyDataset and                                    *)
(* WordEmbeddingsAndHyponymyDatasetWithNonHyponymyRelation.                *)
(*                                                                         *)
(* Python values are modelled as follows.  An Optional[int] is <<>> for    *)
(* None and <<n>> for the integer n.  A list is a sequence; a batch-local  *)
(* index is 0-based as in the code, so entity index i is lst_tokens[i+1].  *)
(* A relation triple is <<hypernym_index, hyponym_index, distance>>.       *)
(* The `verbose` switch only prints diagnostics and adds the diagnostic    *)
(* field entity_sampled; it is not modelled.                               *)
(***************************************************************************)
EXTENDS Integers, Sequences, FiniteSets, TLC

VARIABLES
    self,   \* the sampler object: construction state, configuration, fields
    pc,     \* "idle", or "getitem" while a __getitem__ call is in its loop
    idx,    \* the local `idx` of the running __getitem__ call
    pos,    \* number of chunks the hyponymy dataloader has handed to __iter__
    out,    \* outcome of the last batch request
    loc,    \* locals of the last batch request that reached batch creation
    arg,    \* the index the running or last __getitem__ call was entered with
    records,\* the records the hyponymy dataset holds
    other,  \* a second caller's __getitem__ call on the same sampler
    loss,   \* the loss object: construction state, class, distance function
    fwd,    \* the last forward() call of the loss object
    num,    \* the last evaluation of a scoring or distance function
    flt,    \* the DictionaryFilter object
    verdict \* the last call of the filter

samplervars == <<self, pc, idx, pos, out, loc, arg, records, other>>

lossvars == <<loss, fwd, num>>

filtervars == <<flt, verdict>>

vars == <<self, pc, idx, pos, out, loc, arg, records, other, loss, fwd, num, flt, verdict>>

----------------------------------------------------------------------------
(* Bounds of the model *)

\* largest embedding_batch_size tried at construction
MaxEmbeddingBatchSize == 5
\* largest non_hyponymy_batch_size tried at construction
MaxNonHyponymyBatchSize == 4
\* largest chunk index a __getitem__ call is started with or advances to
MaxIdx == 4

----------------------------------------------------------------------------
(* Generic helpers *)

NoneVal == <<>>
Some(x) == <<x>>
NoError == "None"

Range(s) == {s[i] : i \in DOMAIN s}
Min(a, b) == IF a <= b THEN a ELSE b

\* all orders in which the members of the finite set S can be listed
Orderings(S) ==
    {f \in [1..Cardinality(S) -> S] : \A x \in S : \E i \in DOMAIN f : f[i] = x}

----------------------------------------------------------------------------
(* The embedding source (AbstractWordEmbeddingsDataset) *)

\* index_to_entity(idx) for idx in range(len(word_embeddings_dataset))
index_to_entity == <<"animal", "dog", "cat", "puppy">>

n_embeddings == Len(index_to_entity)

\* is_encodable(token): a vector exists for the token
is_encodable(token) == token \in Range(index_to_entity)

\* word_embeddings_dataset[token]["embedding"] for an encodable token
word_embedding(token) ==
    CASE token = "animal" -> <<1, 0>>
      [] token = "dog"    -> <<0, 1>>
      [] token = "cat"    -> <<1, 1>>
      [] token = "puppy"  -> <<0, 2>>

----------------------------------------------------------------------------
(* The knowledge base (HyponymyDataset) *)

Rec(hypo, hyper, d) == [hyponym |-> hypo, hypernym |-> hyper, distance |-> d]

\* records of the hyponymy dataset, in dataset order; "canine" has no embedding
hyponymy_dataset ==
    << Rec("dog", "animal", 2),
       Rec("cat", "animal", 1),
       Rec("canine", "animal", 1),
       Rec("dog", "canine", 1),
       Rec("puppy", "dog", 1),
       Rec("puppy", "canine", 2) >>

n_hyponymy == Len(hyponymy_dataset)

\* self._hyponymy_dataset[n_idx_min:n_idx_max] with 0 <= n_idx_min <= n_idx_max,
\* a new list of the records the dataset holds at the time of the call
dataset_slice(n_idx_min, n_idx_max) ==
    SubSeq(records, Min(n_idx_min, Len(records)) + 1, Min(n_idx_max, Len(records)))

\* number of chunks the sequential DataLoader yields: ceil(n / batch_size)
n_chunks(hyponymy_batch_size) ==
    (n_hyponymy + hyponymy_batch_size - 1) \div hyponymy_batch_size

----------------------------------------------------------------------------
(* Constructor arguments *)

AvailableOptions == {"hyponym", "hypernym", "both"}

\* values tried for non_hyponymy_relation_target; "sibling" is not an option
Targets == AvailableOptions \cup {"sibling"}

\* class of the hyponymy dataset object; WordNetHyponymyDataset is a
\* HyponymyDataset, "object" is neither
DatasetTypes == {"HyponymyDataset", "WordNetHyponymyDataset", "object"}

Config(kind, be, br, nh, dist, target, excl, limit, split, ds) ==
    [kind |-> kind,
     embedding_batch_size |-> be,
     hyponymy_batch_size |-> br,
     non_hyponymy_batch_size |-> nh,
     non_hyponymy_relation_distance |-> dist,
     non_hyponymy_relation_target |-> target,
     exclude_reverse_hyponymy_from_non_hyponymy_relation |-> excl,
     limit_hyponym_candidates_within_minibatch |-> limit,
     split_hyponymy_and_non_hyponymy |-> split,
     dataset_type |-> ds]

\* arguments of WordEmbeddingsAndHyponymyDataset(...); the fields of the
\* subclass carry its defaults and are not read
BaseConfigs(BeS, BrS) ==
    {Config("base", be, br, NoneVal, NoneVal, "hyponym", TRUE, TRUE, TRUE, ds) :
        be \in BeS, br \in BrS, ds \in {"HyponymyDataset", "WordNetHyponymyDataset"}}

\* arguments of WordEmbeddingsAndHyponymyDatasetWithNonHyponymyRelation(...)
NegConfigs(BeS, BrS, NhS, DistS, TargetS, ExclS, LimitS, SplitS, DsS) ==
    {Config("neg", be, br, nh, dist, target, excl, limit, split, ds) :
        be \in BeS, br \in BrS, nh \in NhS, dist \in DistS, target \in TargetS,
        excl \in ExclS, limit \in LimitS, split \in SplitS, ds \in DsS}

----------------------------------------------------------------------------
(* Constructors.  Each returns the error raised (NoError when construction  *)
(* succeeds), the check that raised it and the attributes assigned to the   *)
(* object up to that point.                                                 *)

BaseFields ==
    {"_word_embeddings_dataset", "_hyponymy_dataset", "_n_embeddings", "_n_hyponymy",
     "_embedding_batch_size", "_hyponymy_batch_size", "_hyponymy_dataloader", "_verbose"}

NegFields ==
    {"_non_hyponymy_batch_size", "_non_hyponymy_multiple", "_non_hyponymy_relation_distance",
     "_non_hyponymy_relation_target", "_exclude_reverse_hyponymy_from_non_hyponymy_relation",
     "_limit_hyponym_candidates_within_minibatch", "_split_hyponymy_and_non_hyponymy"}

InitResult(err, check, assigned, taxonomy, multiple) ==
    [error |-> err, check |-> check, assigned |-> assigned,
     taxonomy |-> taxonomy, non_hyponymy_multiple |-> multiple]

\* as batch_size_ratio_ok, but without the factor two
batch_size_ratio_ok_without_factor(embedding_batch_size, hyponymy_batch_size) ==
    embedding_batch_size >= hyponymy_batch_size

\* the assert of WordEmbeddingsAndHyponymyDataset.__init__
batch_size_ratio_ok(embedding_batch_size, hyponymy_batch_size) ==
    embedding_batch_size >= 2 * hyponymy_batch_size

\* WordEmbeddingsAndHyponymyDataset.__init__
WordEmbeddingsAndHyponymyDataset_init(cfg) ==
    IF ~batch_size_ratio_ok(cfg.embedding_batch_size, cfg.hyponymy_batch_size)
    THEN InitResult("AssertionError", "embedding_batch_size", {}, "None", NoneVal)
    ELSE InitResult(NoError, "None", BaseFields, "None", NoneVal)

\* non_hyponymy_batch_size % hyponymy_batch_size == 0, for an integer size
is_multiple(non_hyponymy_batch_size, hyponymy_batch_size) ==
    non_hyponymy_batch_size % hyponymy_batch_size = 0

\* as pool_size_ok, but without the negative records' share
pool_size_ok_without_negatives(embedding_batch_size, hyponymy_batch_size, non_hyponymy_batch_size) ==
    embedding_batch_size >= 2 * hyponymy_batch_size

\* the assert under `if not limit_hyponym_candidates_within_minibatch`
pool_size_ok(embedding_batch_size, hyponymy_batch_size, non_hyponymy_batch_size) ==
    embedding_batch_size >= 2 * hyponymy_batch_size + non_hyponymy_batch_size

\* the assert under `if non_hyponymy_relation_target == "both"`
even_multiple_ok(non_hyponymy_multiple) == non_hyponymy_multiple % 2 = 0

\* as taxonomy_for, but testing for HyponymyDataset first, which a
\* WordNetHyponymyDataset also is
taxonomy_for_general_first(dataset_type) ==
    IF dataset_type \in {"HyponymyDataset", "WordNetHyponymyDataset"} THEN "BasicTaxonomy"
    ELSE "NotImplementedError"

\* the isinstance chain that builds self._taxonomy
taxonomy_for(dataset_type) ==
    IF dataset_type = "WordNetHyponymyDataset" THEN "WordNetTaxonomy"
    ELSE IF dataset_type = "HyponymyDataset" THEN "BasicTaxonomy"
    ELSE "NotImplementedError"

\* WordEmbeddingsAndHyponymyDatasetWithNonHyponymyRelation.__init__
WithNonHyponymyRelation_init(cfg) ==
    LET base == WordEmbeddingsAndHyponymyDataset_init(cfg)
        be == cfg.embedding_batch_size
        br == cfg.hyponymy_batch_size
        nh == cfg.non_hyponymy_batch_size
    IN  IF base.error # NoError THEN base
        ELSE IF nh = NoneVal
        THEN \* None % int
             InitResult("TypeError", "non_hyponymy_batch_size", BaseFields, "None", NoneVal)
        ELSE IF ~is_multiple(nh[1], br)
        THEN InitResult("AssertionError", "multiple", BaseFields, "None", NoneVal)
        ELSE IF ~cfg.limit_hyponym_candidates_within_minibatch /\ ~pool_size_ok(be, br, nh[1])
        THEN InitResult("AssertionError", "pool", BaseFields, "None", NoneVal)
        ELSE IF cfg.non_hyponymy_relation_target \notin AvailableOptions
        THEN InitResult("AssertionError", "target", BaseFields, "None", NoneVal)
        ELSE LET multiple == nh[1] \div br
                 assigned == BaseFields \cup NegFields
             IN  IF cfg.non_hyponymy_relation_target = "both" /\ ~even_multiple_ok(multiple)
                 THEN InitResult("AssertionError", "even", assigned, "None", Some(multiple))
                 ELSE IF taxonomy_for(cfg.dataset_type) = "NotImplementedError"
                 THEN InitResult("NotImplementedError", "dataset_type", assigned,
                                 "None", Some(multiple))
                 ELSE InitResult(NoError, "None", assigned \cup {"_taxonomy"},
                                 taxonomy_for(cfg.dataset_type), Some(multiple))

\* the constructor of the class named by cfg.kind
construct(cfg) ==
    IF cfg.kind = "base" THEN WordEmbeddingsAndHyponymyDataset_init(cfg)
    ELSE WithNonHyponymyRelation_init(cfg)

----------------------------------------------------------------------------
(* Batches *)

Batch(embedding, entity, relation, raw) ==
    [embedding |-> embedding,
     entity |-> entity,
     hyponymy_relation |-> relation,
     hyponymy_relation_raw |-> raw,
     is_split |-> FALSE,
     non_hyponymy_relation |-> <<>>,
     non_hyponymy_relation_raw |-> <<>>]

NoBatch == Batch(<<>>, <<>>, <<>>, <<>>)

\* outcome of a batch request: a returned batch or the exception raised
Returned(batch) == [kind |-> "batch", error |-> NoError, batch |-> batch]
Raised(err) == [kind |-> "error", error |-> err, batch |-> NoBatch]
NoOutcome == [kind |-> "none", error |-> NoError, batch |-> NoBatch]

\* is_encodable_all(*tokens)
is_encodable_all(tokens) == \A i \in DOMAIN tokens : is_encodable(tokens[i])

\* [sample for sample in batch_hyponymy_b if self.is_encodable_all(hyponym, hypernym)]
encodable_samples(batch_hyponymy_b) ==
    SelectSeq(batch_hyponymy_b, LAMBDA sample : is_encodable_all(<<sample.hyponym, sample.hypernym>>))

\* the tokens taken from the hyponymy pairs
tokens_of(batch_hyponymy) ==
    {batch_hyponymy[k].hyponym : k \in DOMAIN batch_hyponymy}
        \cup {batch_hyponymy[k].hypernym : k \in DOMAIN batch_hyponymy}

\* n_diff = self._embedding_batch_size - len(set_tokens)
n_diff(embedding_batch_size, set_tokens) == embedding_batch_size - Cardinality(set_tokens)

\* the results np.random.choice(range(n_embeddings), size, replace=False) can
\* give, as sets of indices (the order of the draw is not kept by set.update)
random_choice(size) == {D \in SUBSET (0..(n_embeddings - 1)) : Cardinality(D) = size}

\* set_tokens after set_tokens.update(lst_tokens_from_embeddings)
with_fillers(set_tokens, lst_index) ==
    set_tokens \cup {index_to_entity[i + 1] : i \in lst_index}

\* as token_to_index, but counting positions from 1
token_to_index_from_one(lst_tokens) ==
    [token \in Range(lst_tokens) |->
        CHOOSE i \in DOMAIN lst_tokens :
            /\ lst_tokens[i] = token
            /\ \A j \in DOMAIN lst_tokens : lst_tokens[j] = token => j <= i]

\* {token: idx for idx, token in enumerate(lst_tokens)}: a later position of
\* the same token overrides an earlier one
token_to_index(lst_tokens) ==
    [token \in Range(lst_tokens) |->
        (CHOOSE i \in DOMAIN lst_tokens :
            /\ lst_tokens[i] = token
            /\ \A j \in DOMAIN lst_tokens : lst_tokens[j] = token => j <= i) - 1]

\* as mat_embeddings, but stacking the rows in the opposite order
mat_embeddings_reversed(lst_tokens) ==
    [i \in DOMAIN lst_tokens |-> word_embedding(lst_tokens[Len(lst_tokens) + 1 - i])]

\* np.stack([word_embeddings_dataset[token]["embedding"] for token in lst_tokens])
mat_embeddings(lst_tokens) ==
    [i \in DOMAIN lst_tokens |-> word_embedding(lst_tokens[i])]

\* as relation_of, but with the two indices in the opposite order
relation_of_swapped(hyponymy, t2i) ==
    <<t2i[hyponymy.hyponym], t2i[hyponymy.hypernym], hyponymy.distance>>

\* the (idx_hyper, idx_hypo, distance) triple of one record
relation_of(hyponymy, t2i) ==
    <<t2i[hyponymy.hypernym], t2i[hyponymy.hyponym], hyponymy.distance>>

\* lst_hyponymy_relation, one triple appended per record of batch_hyponymy
lst_hyponymy_relation(batch_hyponymy, t2i) ==
    [k \in DOMAIN batch_hyponymy |-> relation_of(batch_hyponymy[k], t2i)]

\* the orders list(set_tokens) can have
list_of_set(set_tokens) == Orderings(set_tokens)

\* _create_batch_from_hyponymy_samples: the outcomes it can have
create_batch_from_hyponymy_samples(embedding_batch_size, batch_hyponymy) ==
    LET set_tokens == tokens_of(batch_hyponymy)
        nd == n_diff(embedding_batch_size, set_tokens)
        draws == IF nd > 0 THEN random_choice(nd) ELSE {{}}
    IN  IF nd > n_embeddings
        THEN \* cannot take a larger sample than population
             {Raised("ValueError")}
        ELSE UNION {
                LET all_tokens == with_fillers(set_tokens, lst_index)
                IN  IF \E token \in all_tokens : ~is_encodable(token)
                    THEN {Raised("KeyError")}
                    ELSE {Returned(Batch(mat_embeddings(lst_tokens),
                                         lst_tokens,
                                         lst_hyponymy_relation(batch_hyponymy,
                                                               token_to_index(lst_tokens)),
                                         batch_hyponymy)) :
                            lst_tokens \in list_of_set(all_tokens)}
                : lst_index \in draws}

----------------------------------------------------------------------------
(* The taxonomy oracle (BasicTaxonomy), built from the direct hyponymy      *)
(* pairs of the hyponymy dataset                                            *)

\* the direct (distance 1) pairs <<hypernym, hyponym>> of the dataset
taxonomy_edges ==
    {<<hyponymy_dataset[k].hypernym, hyponymy_dataset[k].hyponym>> :
        k \in {j \in DOMAIN hyponymy_dataset : hyponymy_dataset[j].distance = 1}}

taxonomy_entities == {e[1] : e \in taxonomy_edges} \cup {e[2] : e \in taxonomy_edges}

RECURSIVE hyponyms(_)
\* every entity below `entity` in the taxonomy
hyponyms(entity) ==
    LET direct == {e[2] : e \in {d \in taxonomy_edges : d[1] = entity}}
    IN  direct \cup UNION {hyponyms(c) : c \in direct}

\* every entity above `entity` in the taxonomy
hypernyms(entity) == {a \in taxonomy_entities : entity \in hyponyms(a)}

\* distance the oracle reports for the pair (hypernym, hyponym): the depth of
\* their lowest common ancestor minus the depth of `hypernym`; it is negative
\* whenever `hypernym` is not `hyponym` or one of its ancestors
hyponymy_distance(hypernym, hyponym) ==
    LET common == (hypernyms(hypernym) \cup {hypernym}) \cap (hypernyms(hyponym) \cup {hyponym})
    IN  (Cardinality(common) - 1) - Cardinality(hypernyms(hypernym))

\* the lists of `n` distinct members of `pool`
samples_without_replacement(pool, n) ==
    {f \in [1..n -> pool] : \A i, j \in 1..n : f[i] = f[j] => i = j}

\* the entities the oracle draws from: the given candidates, or every entity
\* of the taxonomy when candidates is None
candidate_pool(candidates) ==
    IF candidates = NoneVal THEN taxonomy_entities ELSE candidates[1] \cap taxonomy_entities

\* sample_random_hyponyms(entity, candidates, size, exclude_hypernyms): the
\* lists of (hypernym, hyponym, distance) it can return, as many as it can
\* find up to `size`
sample_random_hyponyms(entity, candidates, size, exclude_hypernyms) ==
    LET pool == candidate_pool(candidates)
                    \ ({entity} \cup hyponyms(entity)
                        \cup (IF exclude_hypernyms THEN hypernyms(entity) ELSE {}))
    IN  {[i \in DOMAIN f |-> <<entity, f[i], hyponymy_distance(entity, f[i])>>] :
            f \in samples_without_replacement(pool, Min(size, Cardinality(pool)))}

\* sample_random_hypernyms(entity, candidates, size, exclude_hypernyms)
sample_random_hypernyms(entity, candidates, size, exclude_hypernyms) ==
    LET pool == candidate_pool(candidates)
                    \ ({entity} \cup hypernyms(entity)
                        \cup (IF exclude_hypernyms THEN hyponyms(entity) ELSE {}))
    IN  {[i \in DOMAIN f |-> <<f[i], entity, hyponymy_distance(f[i], entity)>>] :
            f \in samples_without_replacement(pool, Min(size, Cardinality(pool)))}

----------------------------------------------------------------------------
(* Negative sampling *)

OracleCall(method, entity, size) == [method |-> method, entity |-> entity, size |-> size]

\* the result of sampling: the records made, the oracle calls issued, the error
Sampled(samples, calls) == [error |-> NoError, samples |-> samples, calls |-> calls]
SamplingRaised(err) == [error |-> err, samples |-> <<>>, calls |-> <<>>]

\* size_per_sample as computed in __getitem__ and __iter__
size_per_sample(target, non_hyponymy_multiple) ==
    IF target = "both" THEN non_hyponymy_multiple \div 2 ELSE non_hyponymy_multiple

\* set_candidates: the entities of the mini-batch, or None
set_candidates(limit_within_minibatch, batch_hyponymy) ==
    IF limit_within_minibatch THEN Some(tokens_of(batch_hyponymy)) ELSE NoneVal

\* the dict made from one (hypernym, hyponym, distance) tuple
non_hyponymy_sample(tup, non_hyponymy_relation_distance) ==
    [hyponym |-> tup[2],
     hypernym |-> tup[1],
     distance |-> IF non_hyponymy_relation_distance = NoneVal
                  THEN tup[3] ELSE non_hyponymy_relation_distance[1]]

\* the oracle methods called for one pair under a target, in call order
methods_for(target) ==
    (IF target \in {"hyponym", "both"} THEN <<"sample_random_hyponyms">> ELSE <<>>)
        \o (IF target \in {"hypernym", "both"} THEN <<"sample_random_hypernyms">> ELSE <<>>)

\* the entity an oracle method is called with for the pair `hyponymy`
entity_for(method, hyponymy) ==
    IF method = "sample_random_hyponyms" THEN hyponymy.hypernym ELSE hyponymy.hyponym

\* the result lists of one oracle call
oracle(method, entity, candidates, size, exclude_hypernyms) ==
    IF method = "sample_random_hyponyms"
    THEN sample_random_hyponyms(entity, candidates, size, exclude_hypernyms)
    ELSE sample_random_hypernyms(entity, candidates, size, exclude_hypernyms)

RECURSIVE extend_all(_, _, _, _, _, _)
\* lst_tup_sample_b for one pair: `done` extended by the results of the
\* methods from position m on
extend_all(done, methods, m, hyponymy, cfg, candidates_and_size) ==
    IF m > Len(methods) THEN {done}
    ELSE UNION {
            extend_all(done \o r, methods, m + 1, hyponymy, cfg, candidates_and_size)
            : r \in oracle(methods[m], entity_for(methods[m], hyponymy),
                           candidates_and_size[1], candidates_and_size[2],
                           cfg.exclude_reverse_hyponymy_from_non_hyponymy_relation)}

\* the oracle calls issued for one pair
calls_for(hyponymy, target, size) ==
    [m \in DOMAIN methods_for(target) |->
        OracleCall(methods_for(target)[m], entity_for(methods_for(target)[m], hyponymy), size)]

\* isinstance(self._taxonomy, BasicTaxonomy): the generic and the WordNet
\* taxonomy are two separate variants, neither a subclass of the other
is_basic_taxonomy(taxonomy) == taxonomy = "BasicTaxonomy"

RECURSIVE sample_from(_, _, _, _, _, _)
\* the loop over batch_hyponymy from position k on, with the samples and
\* calls accumulated so far
sample_from(k, acc, cfg, taxonomy, batch_hyponymy, size) ==
    IF k > Len(batch_hyponymy) THEN {acc}
    ELSE IF is_basic_taxonomy(taxonomy)
    THEN UNION {
            sample_from(k + 1,
                        Sampled(acc.samples \o
                                    [i \in DOMAIN tups |->
                                        non_hyponymy_sample(tups[i],
                                            cfg.non_hyponymy_relation_distance)],
                                acc.calls \o
                                    calls_for(batch_hyponymy[k],
                                              cfg.non_hyponymy_relation_target, size)),
                        cfg, taxonomy, batch_hyponymy, size)
            : tups \in extend_all(<<>>, methods_for(cfg.non_hyponymy_relation_target), 1,
                                  batch_hyponymy[k], cfg,
                                  <<set_candidates(cfg.limit_hyponym_candidates_within_minibatch,
                                                   batch_hyponymy), size>>)}
    ELSE \* WordNetTaxonomy: not yet implemented
         {SamplingRaised("NotImplementedError")}

\* _create_non_hyponymy_samples_from_hyponymy_samples: the results it can have
create_non_hyponymy_samples_from_hyponymy_samples(cfg, taxonomy, batch_hyponymy, size) ==
    sample_from(1, Sampled(<<>>, <<>>), cfg, taxonomy, batch_hyponymy, size)

----------------------------------------------------------------------------
(* Splitting *)

\* as split_positions, but counting distance 0 as hyponymy
split_positions_zero_positive(relation, keep) ==
    SelectSeq([k \in DOMAIN relation |-> k],
              LAMBDA k : IF keep THEN relation[k][3] >= 0 ELSE ~(relation[k][3] >= 0))

\* positions of `relation` whose distance is > 0 (keep = TRUE) or not
split_positions(relation, keep) ==
    SelectSeq([k \in DOMAIN relation |-> k],
              LAMBDA k : IF keep THEN relation[k][3] > 0 ELSE ~(relation[k][3] > 0))

\* the members of `lst` at the given positions, in that order
pick(lst, positions) == [i \in DOMAIN positions |-> lst[positions[i]]]

\* _split_hyponymy_samples_and_non_hyponymy_samples
split_hyponymy_samples_and_non_hyponymy_samples(batch) ==
    LET hypo == split_positions(batch.hyponymy_relation, TRUE)
        non  == split_positions(batch.hyponymy_relation, FALSE)
    IN  [batch EXCEPT
            !.hyponymy_relation = pick(batch.hyponymy_relation, hypo),
            !.hyponymy_relation_raw = pick(batch.hyponymy_relation_raw, hypo),
            !.non_hyponymy_relation = pick(batch.hyponymy_relation, non),
            !.non_hyponymy_relation_raw = pick(batch.hyponymy_relation_raw, non),
            !.is_split = TRUE]

----------------------------------------------------------------------------
(* One pass of a batch request over a non-empty list of surviving records   *)

\* batch_hyponymy.extend(batch_non_hyponymy) seen from the hyponymy dataset:
\* batch_hyponymy is the list the filtering comprehension has just created,
\* so the records the dataset holds are the ones it held before
hyponymy_dataset_after_extend_in_place(dataset, batch_non_hyponymy) ==
    dataset \o batch_non_hyponymy

hyponymy_dataset_after_extend(dataset, batch_non_hyponymy) == dataset

Locals(via, chunk, raw_chunk, survivors, size, sampled, before_split) ==
    [via |-> via,
     chunk |-> chunk,
     batch_hyponymy_b |-> raw_chunk,
     survivors |-> survivors,
     size_per_sample |-> size,
     calls |-> sampled.calls,
     batch_non_hyponymy |-> sampled.samples,
     before_split |-> before_split]

NoLocals == Locals("none", 0, <<>>, <<>>, 0, Sampled(<<>>, <<>>), NoBatch)

\* what follows the emptiness test in WordEmbeddingsAndHyponymyDataset
\* .__getitem__ / .__iter__: pairs <<outcome, sampling result, batch as created>>
base_request(s, survivors) ==
    {<<o, Sampled(<<>>, <<>>), o.batch>> :
        o \in create_batch_from_hyponymy_samples(s.cfg.embedding_batch_size, survivors)}

\* what follows the emptiness test in
\* WordEmbeddingsAndHyponymyDatasetWithNonHyponymyRelation.__getitem__ / .__iter__
non_hyponymy_request(s, survivors) ==
    LET size == size_per_sample(s.cfg.non_hyponymy_relation_target, s.non_hyponymy_multiple[1])
    IN  UNION {
            IF r.error # NoError
            THEN {<<Raised(r.error), r, NoBatch>>}
            ELSE {<<IF o.kind = "batch" /\ s.cfg.split_hyponymy_and_non_hyponymy
                    THEN Returned(split_hyponymy_samples_and_non_hyponymy_samples(o.batch))
                    ELSE o,
                    r, o.batch>> :
                    o \in create_batch_from_hyponymy_samples(s.cfg.embedding_batch_size,
                                                             survivors \o r.samples)}
            : r \in create_non_hyponymy_samples_from_hyponymy_samples(
                        s.cfg, s.taxonomy, survivors, size)}

\* the method of the object's class
request(s, survivors) ==
    IF s.cfg.kind = "base" THEN base_request(s, survivors)
    ELSE non_hyponymy_request(s, survivors)

\* size_per_sample local of the request (0 in the base class, which has none)
request_size(s) ==
    IF s.cfg.kind = "base" THEN 0
    ELSE size_per_sample(s.cfg.non_hyponymy_relation_target, s.non_hyponymy_multiple[1])

\* as chunk_at, but with the slice running one record into the next chunk
chunk_at_overlapping(hyponymy_batch_size, j) ==
    dataset_slice(hyponymy_batch_size * j, hyponymy_batch_size * (j + 1) + 1)

\* chunk j of the dataset: what the sequential dataloader yields j-th (from 0)
\* and what __getitem__ slices for idx = j
chunk_at(hyponymy_batch_size, j) ==
    dataset_slice(hyponymy_batch_size * j, hyponymy_batch_size * (j + 1))

----------------------------------------------------------------------------
(* Loss functions: construction *)

LossClasses ==
    {"CodeLengthPredictionLoss", "CodeLengthDiffPredictionLoss", "HyponymyScoreLoss",
     "LowestCommonAncestorLengthPredictionLoss", "EntailmentProbabilityLoss"}

\* the metric names the chain of comparisons in __init__ knows
MetricNames ==
    {"mse", "scaled-mse", "standardized-mse", "autoscaled-mse", "positive-autoscaled-mse",
     "batchnorm-mse", "mae", "scaled-mae", "cosine", "hinge", "binary-cross-entropy"}

\* names a caller can pass that the chain does not know
OtherNames == {"rmse", "MSE", "bce"}

\* the distance methods CodeLengthPredictionLoss defines
DistanceMethods ==
    {"_mse", "_scaled_mse", "_standardized_mse", "_auto_scaled_mse",
     "_positive_auto_scaled_mse", "_mae", "_scaled_mae", "_cosine_distance",
     "_hinge_distance", "_bce"}

\* the attribute the chain reads for a metric name, "None" in its else branch
method_named_or_default(distance_metric) ==
    CASE distance_metric = "mse" -> "_mse"
      [] distance_metric = "scaled-mse" -> "_scaled_mse"
      [] distance_metric = "standardized-mse" -> "_standardized_mse"
      [] distance_metric = "autoscaled-mse" -> "_auto_scaled_mse"
      [] distance_metric = "positive-autoscaled-mse" -> "_positive_auto_scaled_mse"
      [] distance_metric = "batchnorm-mse" -> "_batchnorm_mse"
      [] distance_metric = "mae" -> "_mae"
      [] distance_metric = "scaled-mae" -> "_scaled_mae"
      [] distance_metric = "cosine" -> "_cosine_distance"
      [] distance_metric = "hinge" -> "_hinge_distance"
      [] distance_metric = "binary-cross-entropy" -> "_bce"
      [] OTHER -> "_scaled_mse"

method_named(distance_metric) ==
    CASE distance_metric = "mse" -> "_mse"
      [] distance_metric = "scaled-mse" -> "_scaled_mse"
      [] distance_metric = "standardized-mse" -> "_standardized_mse"
      [] distance_metric = "autoscaled-mse" -> "_auto_scaled_mse"
      [] distance_metric = "positive-autoscaled-mse" -> "_positive_auto_scaled_mse"
      [] distance_metric = "batchnorm-mse" -> "_batchnorm_mse"
      [] distance_metric = "mae" -> "_mae"
      [] distance_metric = "scaled-mae" -> "_scaled_mae"
      [] distance_metric = "cosine" -> "_cosine_distance"
      [] distance_metric = "hinge" -> "_hinge_distance"
      [] distance_metric = "binary-cross-entropy" -> "_bce"
      [] OTHER -> "None"

\* a loss object, or what is left of a failed construction
LossObject(class, given, error, distance_metric, func, normalize_code_length, normalize_hyponymy_score) ==
    [state |-> IF error = NoError THEN "ready" ELSE "failed",
     class |-> class,
     given |-> given,
     error |-> error,
     distance_metric |-> distance_metric,
     func_distance |-> func,
     normalize_code_length |-> normalize_code_length,
     normalize_hyponymy_score |-> normalize_hyponymy_score]

NoLossObject ==
    [LossObject("None", NoneVal, NoError, "None", "None", FALSE, FALSE)
        EXCEPT !.state = "new"]

\* CodeLengthPredictionLoss.__init__: the error raised, self._distance_metric
\* and self._func_distance.  The name is stored before the chain runs; a name
\* the chain does not know raises AttributeError in its else branch, and so
\* does reading a method the class does not define
CodeLengthPredictionLoss_init(distance_metric) ==
    LET m == method_named(distance_metric)
    IN  IF m = "None"
        THEN [error |-> "AttributeError", distance_metric |-> distance_metric,
              func |-> "None"]
        ELSE IF m \notin DistanceMethods
        THEN [error |-> "AttributeError", distance_metric |-> distance_metric,
              func |-> "None"]
        ELSE [error |-> NoError, distance_metric |-> distance_metric, func |-> m]

\* the value of the distance_metric parameter: "scaled-mse" when not passed
distance_metric_or_default(given) ==
    IF given = NoneVal THEN "scaled-mse" ELSE given[1]

\* class(distance_metric=given, normalize_...=normalize), given = NoneVal when
\* the caller leaves distance_metric out
loss_init(class, given, normalize) ==
    IF class \in {"CodeLengthPredictionLoss", "CodeLengthDiffPredictionLoss"}
    THEN LET r == CodeLengthPredictionLoss_init(distance_metric_or_default(given))
         IN  LossObject(class, given, r.error, r.distance_metric, r.func, normalize, FALSE)
    ELSE IF class \in {"HyponymyScoreLoss", "LowestCommonAncestorLengthPredictionLoss"}
    THEN LET r == CodeLengthPredictionLoss_init(distance_metric_or_default(given))
         IN  LossObject(class, given, r.error, r.distance_metric, r.func, FALSE,
                        r.error = NoError /\ normalize)
    ELSE \* EntailmentProbabilityLoss: no distance_metric and no normalize parameter
         IF given # NoneVal \/ normalize
         THEN LossObject(class, given, "TypeError", "None", "None", FALSE, FALSE)
         ELSE LET r == CodeLengthPredictionLoss_init("binary-cross-entropy")
              IN  LossObject(class, given, r.error, r.distance_metric, r.func, FALSE, FALSE)

----------------------------------------------------------------------------
(* Loss functions: forward.  A code distribution batch t_prob_c_batch is a   *)
(* sequence of entities, an entity a sequence of digits, a digit a sequence  *)
(* of n_ary probabilities, each a multiple of 1E-5 written as an integer     *)
(* number of such steps.                                                     *)

\* 1.0 in steps of 1E-5
ProbabilityOne == 100000

\* the bounds torch.clamp is called with, in steps of 1E-5
clamp_min == 1

clamp_max == ProbabilityOne - clamp_min

\* torch.clamp(t, min, max) on one element
clamp(x, lo, hi) == IF x < lo THEN lo ELSE IF x > hi THEN hi ELSE x

\* torch.clamp(t_prob_c_batch, min=1E-5, max=(1.0-1E-5))
clamp_batch(t) ==
    [b \in DOMAIN t |-> [n \in DOMAIN t[b] |-> [m \in DOMAIN t[b][n] |->
        clamp(t[b][n][m], clamp_min, clamp_max)]]]

\* torch.index_select(t, dim=0, index=t_idx) with 0-based indices
index_select_rows(t, t_idx) == [k \in DOMAIN t_idx |-> t[t_idx[k] + 1]]

\* [tup[c] for tup in lst_tuple], c from 1
column(lst_tuple, c) == [k \in DOMAIN lst_tuple |-> lst_tuple[k][c]]

\* what forward hands to its scoring function and to its distance function
Forwarded(received, lst_tuple, scoring, scored, normalized, func) ==
    [kind |-> "returned",
     received |-> received,
     lst_tuple |-> lst_tuple,
     scoring |-> scoring,
     scored |-> scored,
     normalized |-> normalized,
     func_distance |-> func]

NoForward == [Forwarded(<<>>, <<>>, "None", <<>>, FALSE, "None") EXCEPT !.kind = "none"]

\* CodeLengthPredictionLoss.forward
CodeLengthPredictionLoss_forward(obj, t_prob_c_batch, lst_tuple) ==
    LET t_prob_c == index_select_rows(t_prob_c_batch, column(lst_tuple, 1))
    IN  Forwarded(t_prob_c_batch, lst_tuple, "calc_soft_code_length", <<t_prob_c>>,
                  obj.normalize_code_length, obj.func_distance)

\* CodeLengthDiffPredictionLoss.forward
CodeLengthDiffPredictionLoss_forward(obj, t_prob_c_batch, lst_tuple) ==
    Forwarded(t_prob_c_batch, lst_tuple, "calc_soft_code_length", <<t_prob_c_batch>>,
              obj.normalize_code_length, obj.func_distance)

\* HyponymyScoreLoss.forward
HyponymyScoreLoss_forward(obj, t_prob_c_batch, lst_tuple) ==
    LET t == clamp_batch(t_prob_c_batch)
        t_prob_c_x == index_select_rows(t, column(lst_tuple, 1))
        t_prob_c_y == index_select_rows(t, column(lst_tuple, 2))
    IN  Forwarded(t_prob_c_batch, lst_tuple, "calc_soft_hyponymy_score",
                  <<t_prob_c_x, t_prob_c_y>>,
                  obj.normalize_hyponymy_score, obj.func_distance)

\* LowestCommonAncestorLengthPredictionLoss.forward
LowestCommonAncestorLengthPredictionLoss_forward(obj, t_prob_c_batch, lst_tuple) ==
    LET t_prob_c_x == index_select_rows(t_prob_c_batch, column(lst_tuple, 1))
        t_prob_c_y == index_select_rows(t_prob_c_batch, column(lst_tuple, 2))
    IN  Forwarded(t_prob_c_batch, lst_tuple, "calc_soft_lowest_common_ancestor_length",
                  <<t_prob_c_x, t_prob_c_y>>,
                  obj.normalize_hyponymy_score, obj.func_distance)

\* EntailmentProbabilityLoss.forward
EntailmentProbabilityLoss_forward(obj, t_prob_c_batch, lst_tuple) ==
    LET t == clamp_batch(t_prob_c_batch)
        t_prob_c_x == index_select_rows(t, column(lst_tuple, 1))
        t_prob_c_y == index_select_rows(t, column(lst_tuple, 2))
    IN  Forwarded(t_prob_c_batch, lst_tuple, "calc_ancestor_probability",
                  <<t_prob_c_x, t_prob_c_y>>, FALSE, obj.func_distance)

\* the forward method of the object's class
forward(obj, t_prob_c_batch, lst_tuple) ==
    CASE obj.class = "CodeLengthPredictionLoss" ->
            CodeLengthPredictionLoss_forward(obj, t_prob_c_batch, lst_tuple)
      [] obj.class = "CodeLengthDiffPredictionLoss" ->
            CodeLengthDiffPredictionLoss_forward(obj, t_prob_c_batch, lst_tuple)
      [] obj.class = "HyponymyScoreLoss" ->
            HyponymyScoreLoss_forward(obj, t_prob_c_batch, lst_tuple)
      [] obj.class = "LowestCommonAncestorLengthPredictionLoss" ->
            LowestCommonAncestorLengthPredictionLoss_forward(obj, t_prob_c_batch, lst_tuple)
      [] OTHER -> EntailmentProbabilityLoss_forward(obj, t_prob_c_batch, lst_tuple)

----------------------------------------------------------------------------
(* Loss functions: scoring and distance functions *)

(* A probability handed to a scoring function is a multiple of             *)
(* 1 / Denominator written as its integer numerator; results are exact      *)
(* fractions: integer numerators over a stated power of Denominator.        *)

\* the grid of probabilities the scoring functions are evaluated on
Denominator == 3

\* the largest number of digits of a code the scoring functions are given
MaxDigits == 2

\* the numbers of rows of the tensors the scoring functions are given
BatchSizes == {1, 2}

RECURSIVE Pow(_, _)
Pow(b, e) == IF e = 0 THEN 1 ELSE b * Pow(b, e - 1)

RECURSIVE SumTo(_, _)
\* v[1] + ... + v[l]
SumTo(v, l) == IF l = 0 THEN 0 ELSE SumTo(v, l - 1) + v[l]

\* torch.sum over a vector
Sum(v) == SumTo(v, Len(v))

RECURSIVE ProductTo(_, _)
\* v[1] * ... * v[l]
ProductTo(v, l) == IF l = 0 THEN 1 ELSE ProductTo(v, l - 1) * v[l]

\* torch.cumprod over a vector
cumprod(v) == [l \in DOMAIN v |-> ProductTo(v, l)]

\* a digit with digit-0 probability p0 and the rest of the mass on two symbols
digit_of(p0) == <<p0, (Denominator - p0 + 1) \div 2, (Denominator - p0) \div 2>>

\* the tensors of shape (N, n_digits, 3) on the grid, one per matrix of
\* digit-0 probabilities
CodeBatches(N, n_digits) ==
    {[b \in 1..N |-> [n \in 1..n_digits |-> digit_of(p0[b][n])]] :
        p0 \in [1..N -> [1..n_digits -> 0..Denominator]]}

\* torch.index_select(t, dim=-1, index=0): shape (N, n_digits, 1), written as
\* the N x n_digits matrix of its elements
index_select_zero(t) == [b \in DOMAIN t |-> [n \in DOMAIN t[b] |-> t[b][n][1]]]

\* .squeeze() of a tensor of shape (N, n_digits, 1): every dimension of size
\* 1 goes, the batch dimension and the digit dimension included.  dims is the
\* shape left, rows the vectors along its last dimension
squeeze(z) ==
    LET N == Len(z)
        n == Len(z[1])
    IN  IF N = 1 /\ n = 1 THEN [dims |-> <<>>, rows |-> z]
        ELSE IF N = 1 THEN [dims |-> <<n>>, rows |-> z]
        ELSE IF n = 1 THEN [dims |-> <<N>>, rows |-> <<[b \in 1..N |-> z[b][1]]>>]
        ELSE [dims |-> <<N, n>>, rows |-> z]

\* _intensity_to_probability on one vector of n intensities: the n + 1
\* numerators of cumprod(1 - cat(0, t)) * cat(t, 1) over Denominator^(n + 2)
intensity_to_probability(t_intensity) ==
    LET n == Len(t_intensity)
        survive == cumprod([k \in 1..(n + 1) |-> Denominator - (<<0>> \o t_intensity)[k]])
        stop == t_intensity \o <<Denominator>>
    IN  [l \in 1..(n + 1) |-> survive[l] * stop[l] * Pow(Denominator, n + 1 - l)]

\* torch.sum(t_p_at_n * torch.arange(n_digits + 1), dim=-1) on one vector
expected_index(t_p_at_n) == Sum([l \in DOMAIN t_p_at_n |-> t_p_at_n[l] * (l - 1)])

\* calc_soft_code_length: the error raised, the shape of ret, the local
\* n_digits, t_p_at_n and the elements of ret, numerators over den
calc_soft_code_length(t_prob_c) ==
    LET t_p_c_zero == squeeze(index_select_zero(t_prob_c))
    IN  IF t_p_c_zero.dims = <<>>
        THEN \* t_p_c_zero.shape[-1] of a tensor without dimensions
             [error |-> "IndexError", dims |-> <<>>, n_digits |-> 0,
              t_p_at_n |-> <<>>, ret |-> <<>>, den |-> 1]
        ELSE LET n_digits == t_p_c_zero.dims[Len(t_p_c_zero.dims)]
                 t_p_at_n == [r \in DOMAIN t_p_c_zero.rows |->
                                 intensity_to_probability(t_p_c_zero.rows[r])]
             IN  [error |-> NoError,
                  dims |-> SubSeq(t_p_c_zero.dims, 1, Len(t_p_c_zero.dims) - 1),
                  n_digits |-> n_digits,
                  t_p_at_n |-> t_p_at_n,
                  ret |-> [r \in DOMAIN t_p_at_n |-> expected_index(t_p_at_n[r])],
                  den |-> Pow(Denominator, n_digits + 2)]

\* torch.sum(t_prob_c_x * t_prob_c_y, dim=-1): numerators over Denominator^2
sum_of_products(t_prob_c_x, t_prob_c_y) ==
    [b \in DOMAIN t_prob_c_x |-> [n \in DOMAIN t_prob_c_x[b] |->
        Sum([m \in DOMAIN t_prob_c_x[b][n] |-> t_prob_c_x[b][n][m] * t_prob_c_y[b][n][m]])]]

\* sum(t_beta * cumprod(t_gamma)) along one row of n_digits digits, with
\* t_gamma = narrow(cat(1, t_gamma_hat), 0, n_digits): the numerator over
\* Denominator^(2 * n_digits + 2)
ancestor_row_sum(t_beta, t_gamma_hat) ==
    LET n_digits == Len(t_beta)
        t_gamma == SubSeq(<<Denominator * Denominator>> \o t_gamma_hat, 1, n_digits)
        t_cum == cumprod(t_gamma)
    IN  Sum([n \in 1..n_digits |->
                t_beta[n] * t_cum[n] * Pow(Denominator, 2 * (n_digits - n))])

\* t_beta = x0 * (1 - y0) on one element: numerator over Denominator^2
beta_without_complement(x0, y0) == x0 * y0

beta(x0, y0) == x0 * (Denominator - y0)

\* calc_ancestor_probability on two tensors of the same shape
\* (T, n_digits, n_ary): the elements of t_prob, numerators over den.  With
\* T >= 2 rows of one digit, squeeze() leaves the digit-0 probabilities as one
\* vector over the rows, which broadcasts against the (T, 1) sums: t_gamma is
\* the column of ones and every element of t_prob is the sum of t_beta over
\* the rows
calc_ancestor_probability(t_prob_c_x, t_prob_c_y) ==
    LET T == Len(t_prob_c_x)
        n_digits == Len(t_prob_c_x[1])
        t_p_c_x_zero == index_select_zero(t_prob_c_x)
        t_p_c_y_zero == index_select_zero(t_prob_c_y)
        t_sum == sum_of_products(t_prob_c_x, t_prob_c_y)
    IN  IF T >= 2 /\ n_digits = 1
        THEN [t_prob |-> [i \in 1..T |->
                            Sum([j \in 1..T |->
                                beta(t_p_c_x_zero[j][1], t_p_c_y_zero[j][1])
                                    * Denominator * Denominator])],
              den |-> Pow(Denominator, 4)]
        ELSE [t_prob |-> [i \in 1..T |->
                            ancestor_row_sum(
                                [n \in 1..n_digits |->
                                    beta(t_p_c_x_zero[i][n], t_p_c_y_zero[i][n])],
                                [n \in 1..n_digits |->
                                    t_sum[i][n] - t_p_c_x_zero[i][n] * t_p_c_y_zero[i][n]])],
              den |-> Pow(Denominator, 2 * n_digits + 2)]

\* 1 / 1E-6: the constant added to sum(u**2) is one part in EpsilonInverse
EpsilonInverse == 1000000

\* the largest absolute value of an element of the vectors the distance
\* functions are given
MaxElement == 2

\* the lengths of those vectors
VectorLengths == {1, 3}

\* torch.sum(u * v) / (torch.sum(u ** 2) + 1E-6), an exact fraction
auto_scale_over_target(u, v) ==
    [num |-> Sum([i \in DOMAIN u |-> u[i] * v[i]]) * EpsilonInverse,
     den |-> Sum([i \in DOMAIN v |-> v[i] * v[i]]) * EpsilonInverse + 1]

auto_scale(u, v) ==
    [num |-> Sum([i \in DOMAIN u |-> u[i] * v[i]]) * EpsilonInverse,
     den |-> Sum([i \in DOMAIN u |-> u[i] * u[i]]) * EpsilonInverse + 1]

\* F.mse_loss(scale * u, v, reduction='mean'): the mean over the elements of
\* (residual[i] / den) ** 2, kept as the residuals and their denominator
mse_loss_scaled(scale, u, v) ==
    [residual |-> [i \in DOMAIN u |-> scale.num * u[i] - scale.den * v[i]],
     den |-> scale.den]

\* _auto_scaled_mse: the fitted factor, the branch taken and the loss; the
\* value of the _scaled_mse branch is not computed
auto_scaled_mse(u, v) ==
    LET scale == auto_scale(u, v)
    IN  IF scale.num > 0
        THEN [scale |-> scale, branch |-> "mse_loss(scale*u, v)",
              loss |-> mse_loss_scaled(scale, u, v)]
        ELSE [scale |-> scale, branch |-> "_scaled_mse(u, v)",
              loss |-> [residual |-> <<>>, den |-> 1]]

\* an argument list waiting for its function, and a function's result
Evaluation(op, fn, args, result) == [op |-> op, fn |-> fn, args |-> args, result |-> result]

NoEvaluation == Evaluation("none", "None", <<>>, <<>>)

----------------------------------------------------------------------------
(* DictionaryFilter.  A Dict[str, Set] is the sequence of its                *)
(* <<field name, values>> items in insertion order; a sample is a function   *)
(* from the field names it has to their values.                              *)

FieldNames == {"pos", "lemma"}

FieldValues == {"n", "v"}

\* the dictionaries over FieldNames, no key twice
FilterMaps ==
    {<<>>}
        \cup {<<<<f, vs>>>> : f \in FieldNames, vs \in SUBSET FieldValues}
        \cup UNION {{<<<<f, vs>>, <<g, ws>>>> :
                        g \in FieldNames \ {f},
                        vs \in SUBSET FieldValues, ws \in SUBSET FieldValues} :
                    f \in FieldNames}

\* an argument that is None or a dictionary
OptionalMaps == {NoneVal} \cup {Some(m) : m \in FilterMaps}

\* the samples: every assignment of values to some of the field names
Samples == UNION {[D -> FieldValues] : D \in SUBSET FieldNames}

FilterObject(state, includes, excludes, error) ==
    [state |-> state, includes |-> includes, excludes |-> excludes, error |-> error]

NoFilter == FilterObject("new", NoneVal, NoneVal, NoError)

\* DictionaryFilter.__init__: both attributes are assigned, then the two
\* asserts run
neither_given_allowed(includes, excludes) == TRUE

at_least_one_given(includes, excludes) == includes # NoneVal \/ excludes # NoneVal

at_most_one_given(includes, excludes) == includes = NoneVal \/ excludes = NoneVal

DictionaryFilter_init(includes, excludes) ==
    IF ~at_least_one_given(includes, excludes)
    THEN FilterObject("failed", includes, excludes, "AssertionError")
    ELSE IF ~at_most_one_given(includes, excludes)
    THEN FilterObject("failed", includes, excludes, "AssertionError")
    ELSE FilterObject("ready", includes, excludes, NoError)

RECURSIVE scan(_, _, _)
\* the loop over items(): "hit" at the first item, from item k on, whose set
\* holds the sample's value, "KeyError" if the sample lacks a field name read
\* before that, "miss" when the loop ends
scan(items, sample, k) ==
    IF k > Len(items) THEN "miss"
    ELSE IF items[k][1] \notin DOMAIN sample THEN "KeyError"
    ELSE IF sample[items[k][1]] \in items[k][2] THEN "hit"
    ELSE scan(items, sample, k + 1)

Verdict(kind, value, error, sample) ==
    [kind |-> kind, value |-> value, error |-> error, sample |-> sample]

NoVerdict == Verdict("none", FALSE, NoError, <<>>)

\* DictionaryFilter.__call__
DictionaryFilter_call(obj, sample) ==
    IF obj.includes # NoneVal
    THEN LET r == scan(obj.includes[1], sample, 1)
         IN  IF r = "KeyError" THEN Verdict("raised", FALSE, "KeyError", sample)
             ELSE Verdict("returned", r = "hit", NoError, sample)
    ELSE IF obj.excludes # NoneVal
    THEN LET r == scan(obj.excludes[1], sample, 1)
         IN  IF r = "KeyError" THEN Verdict("raised", FALSE, "KeyError", sample)
             ELSE Verdict("returned", r # "hit",
                          NoError, sample)
    ELSE \* neither branch is taken: the call returns None
         Verdict("returned None", FALSE, NoError, sample)

----------------------------------------------------------------------------
(* State machine *)

NoConfig == Config("none", 0, 0, NoneVal, NoneVal, "hyponym", TRUE, TRUE, TRUE, "object")

Unconstructed ==
    [state |-> "new", cfg |-> NoConfig, error |-> NoError, check |-> "None",
     assigned |-> {}, taxonomy |-> "None", non_hyponymy_multiple |-> NoneVal]

\* a caller that is not inside __getitem__ and holds no result
NoOther ==
    [pc |-> "idle", arg |-> 0, idx |-> 0, chunk |-> 0, survivors |-> <<>>, kind |-> "none"]

Init ==
    /\ self = Unconstructed
    /\ pc = "idle"
    /\ idx = 0
    /\ pos = 0
    /\ out = NoOutcome
    /\ loc = NoLocals
    /\ arg = 0
    /\ records = hyponymy_dataset
    /\ other = NoOther
    /\ loss = NoLossObject
    /\ fwd = NoForward
    /\ num = NoEvaluation
    /\ flt = NoFilter
    /\ verdict = NoVerdict

\* a constructor call with arguments from Cfgs
Construct(Cfgs) ==
    /\ self.state = "new"
    /\ \E cfg \in Cfgs :
        LET r == construct(cfg)
        IN  self' = [state |-> IF r.error = NoError THEN "ready" ELSE "failed",
                     cfg |-> cfg, error |-> r.error, check |-> r.check,
                     assigned |-> r.assigned, taxonomy |-> r.taxonomy,
                     non_hyponymy_multiple |-> r.non_hyponymy_multiple]
    /\ UNCHANGED <<pc, idx, pos, out, loc, arg, records, other>>
    /\ UNCHANGED <<lossvars, filtervars>>

\* iter(dataset): a fresh generator over the dataloader
IterNew ==
    /\ self.state = "ready"
    /\ pc = "idle"
    /\ out.kind = "none"
    /\ pos > 0
    /\ pos' = 0
    /\ UNCHANGED <<self, pc, idx, out, loc, arg, records, other>>
    /\ UNCHANGED <<lossvars, filtervars>>

\* the chunks from position p on that keep at least one record after filtering
live_chunks(hyponymy_batch_size, p) ==
    {j \in p..(n_chunks(hyponymy_batch_size) - 1) :
        Len(encodable_samples(chunk_at(hyponymy_batch_size, j))) # 0}

\* next(generator): __iter__ runs to its next yield, to its end, or to an exception
IterNext ==
    /\ self.state = "ready"
    /\ pc = "idle"
    /\ out.kind = "none"
    /\ pos < n_chunks(self.cfg.hyponymy_batch_size)
    /\ LET br == self.cfg.hyponymy_batch_size
           live == live_chunks(br, pos)
       IN  IF live = {}
           THEN /\ pos' = n_chunks(br)
                /\ out' = [kind |-> "stop", error |-> "StopIteration", batch |-> NoBatch]
                /\ loc' = NoLocals
                /\ UNCHANGED records
           ELSE LET j == CHOOSE c \in live : \A d \in live : c <= d
                    survivors == encodable_samples(chunk_at(br, j))
                IN  \E t \in request(self, survivors) :
                        /\ out' = t[1]
                        /\ loc' = Locals("iter", j, chunk_at(br, j), survivors,
                                         request_size(self), t[2], t[3])
                        /\ pos' = IF t[1].kind = "batch" THEN j + 1 ELSE n_chunks(br)
                        /\ records' = hyponymy_dataset_after_extend(records, t[2].samples)
    /\ UNCHANGED <<self, pc, idx, arg, other>>
    /\ UNCHANGED <<lossvars, filtervars>>

\* dataset[i]: __getitem__ is entered
GetItemCall ==
    /\ self.state = "ready"
    /\ pc = "idle"
    /\ out.kind = "none"
    /\ \E i \in 0..MaxIdx : idx' = i /\ arg' = i
    /\ pc' = "getitem"
    /\ UNCHANGED <<self, pos, out, loc, records, other>>
    /\ UNCHANGED <<lossvars, filtervars>>

\* the caller is done with the outcome of its last request: the batch is
\* dropped after the training step, the exception has been handled
Discard ==
    /\ pc = "idle"
    /\ out.kind # "none"
    /\ out' = NoOutcome
    /\ loc' = NoLocals
    /\ arg' = 0
    /\ UNCHANGED <<self, pc, idx, pos, records, other>>
    /\ UNCHANGED <<lossvars, filtervars>>

\* the loop of __getitem__ without its test for an empty filtered chunk
GetItemLoop_without_skip ==
    /\ pc = "getitem"
    /\ LET br == self.cfg.hyponymy_batch_size
           batch_hyponymy_b == chunk_at(br, idx)
           survivors == encodable_samples(batch_hyponymy_b)
       IN  \E t \in request(self, survivors) :
                /\ out' = t[1]
                /\ loc' = Locals("getitem", idx, batch_hyponymy_b, survivors,
                                 request_size(self), t[2], t[3])
                /\ pc' = "idle"
                /\ records' = hyponymy_dataset_after_extend(records, t[2].samples)
                /\ UNCHANGED idx
    /\ UNCHANGED <<self, pos, arg, other>>
    /\ UNCHANGED <<lossvars, filtervars>>

\* one iteration of the `while True` loop of __getitem__
GetItemLoop ==
    /\ pc = "getitem"
    /\ LET br == self.cfg.hyponymy_batch_size
           batch_hyponymy_b == chunk_at(br, idx)
           survivors == encodable_samples(batch_hyponymy_b)
       IN  IF Len(survivors) = 0
           THEN /\ idx < MaxIdx
                /\ idx' = idx + 1
                /\ UNCHANGED <<pc, out, loc, records>>
           ELSE \E t \in request(self, survivors) :
                    /\ out' = t[1]
                    /\ loc' = Locals("getitem", idx, batch_hyponymy_b, survivors,
                                     request_size(self), t[2], t[3])
                    /\ pc' = "idle"
                    /\ records' = hyponymy_dataset_after_extend(records, t[2].samples)
                    /\ UNCHANGED idx
    /\ UNCHANGED <<self, pos, arg, other>>
    /\ UNCHANGED <<lossvars, filtervars>>

\* a second caller enters __getitem__ on the same sampler
OtherGetItemCall ==
    /\ self.state = "ready"
    /\ other.pc = "idle"
    /\ other.kind = "none"
    /\ \E i \in 0..MaxIdx :
        other' = [other EXCEPT !.pc = "getitem", !.arg = i, !.idx = i]
    /\ UNCHANGED <<self, pc, idx, pos, out, loc, arg, records>>
    /\ UNCHANGED <<lossvars, filtervars>>

\* one iteration of the `while True` loop of the second caller's __getitem__;
\* of its locals the state keeps the chunk it worked on, the records that
\* survived its filter and the kind of its outcome
OtherGetItemLoop ==
    /\ other.pc = "getitem"
    /\ LET br == self.cfg.hyponymy_batch_size
           batch_hyponymy_b == chunk_at(br, other.idx)
           survivors == encodable_samples(batch_hyponymy_b)
       IN  IF Len(survivors) = 0
           THEN /\ other.idx < MaxIdx
                /\ other' = [other EXCEPT !.idx = other.idx + 1]
                /\ UNCHANGED records
           ELSE \E t \in request(self, survivors) :
                    /\ other' = [other EXCEPT !.pc = "idle", !.chunk = other.idx,
                                              !.survivors = survivors,
                                              !.kind = t[1].kind]
                    /\ records' = hyponymy_dataset_after_extend(records, t[2].samples)
    /\ UNCHANGED <<self, pc, idx, pos, out, loc, arg>>
    /\ UNCHANGED <<lossvars, filtervars>>

\* the second caller is done with the outcome of its call
OtherDiscard ==
    /\ other.pc = "idle"
    /\ other.kind # "none"
    /\ other' = NoOther
    /\ UNCHANGED <<self, pc, idx, pos, out, loc, arg, records>>
    /\ UNCHANGED <<lossvars, filtervars>>

\* a loss class is instantiated
LossConstruct ==
    /\ loss.state = "new"
    /\ \E class \in LossClasses,
          given \in {NoneVal} \cup {Some(m) : m \in MetricNames \cup OtherNames},
          normalize \in BOOLEAN :
            loss' = loss_init(class, given, normalize)
    /\ UNCHANGED <<fwd, num>>
    /\ UNCHANGED <<samplervars, filtervars>>

\* a digit of two symbols at the edges and in the middle of [0, 1], in steps
\* of 1E-5
EdgeDigits ==
    {<<0, ProbabilityOne>>, <<ProbabilityOne, 0>>,
     <<ProbabilityOne \div 2, ProbabilityOne \div 2>>}

\* batches of N entities of n_digits digits, the digits of an entity alike
ForwardBatches(N, n_digits) ==
    {[b \in 1..N |-> [n \in 1..n_digits |-> d[b]]] : d \in [1..N -> EdgeDigits]}

\* the lists of index tuples into a batch of N entities
IndexTuples(N) ==
    {<<<<0, 0>>>>, <<<<0, N - 1>>>>, <<<<0, 0>>, <<N - 1, N - 1>>>>,
     <<<<0, N - 1>>, <<N - 1, 0>>>>}

\* loss(t_prob_c_batch, lst_tuple) on a constructed loss object
Forward ==
    /\ loss.state = "ready"
    /\ fwd.kind = "none"
    /\ \E N \in BatchSizes, n_digits \in 1..MaxDigits :
        \E t_prob_c_batch \in ForwardBatches(N, n_digits), lst_tuple \in IndexTuples(N) :
            fwd' = forward(loss, t_prob_c_batch, lst_tuple)
    /\ UNCHANGED <<loss, num>>
    /\ UNCHANGED <<samplervars, filtervars>>

\* the caller has used the loss value
ForwardDone ==
    /\ fwd.kind # "none"
    /\ fwd' = NoForward
    /\ UNCHANGED <<loss, num>>
    /\ UNCHANGED <<samplervars, filtervars>>

\* calc_soft_code_length is about to be called on a tensor of the grid
SoftCodeLengthInput ==
    \E N \in BatchSizes, n \in 1..MaxDigits :
        \E t \in CodeBatches(N, n) :
            num = Evaluation("input", "calc_soft_code_length", <<t>>, <<>>)

\* calc_ancestor_probability is about to be called on the rows of a tensor
\* of the grid that a list of index tuples selects
AncestorProbabilityInput ==
    \E N \in BatchSizes, n \in 1..MaxDigits :
        \E t \in CodeBatches(N, n), lst_tuple \in IndexTuples(N) :
            num = Evaluation("input", "calc_ancestor_probability", <<t, lst_tuple>>, <<>>)

\* _auto_scaled_mse is about to be called on two vectors of small integers
AutoScaledMseInput ==
    \E L \in VectorLengths :
        \E u \in [1..L -> (-MaxElement)..MaxElement],
           v \in [1..L -> (-MaxElement)..MaxElement] :
            num = Evaluation("input", "_auto_scaled_mse", <<u, v>>, <<>>)

\* calc_soft_code_length(t_prob_c)
CalcSoftCodeLength ==
    /\ num.op = "input"
    /\ num.fn = "calc_soft_code_length"
    /\ num' = [num EXCEPT !.op = "result", !.result = calc_soft_code_length(num.args[1])]
    /\ UNCHANGED <<loss, fwd>>
    /\ UNCHANGED <<samplervars, filtervars>>

\* calc_ancestor_probability on the rows of a batch that lst_tuple selects,
\* as forward selects them
CalcAncestorProbability ==
    /\ num.op = "input"
    /\ num.fn = "calc_ancestor_probability"
    /\ LET t_prob_c_x == index_select_rows(num.args[1], column(num.args[2], 1))
           t_prob_c_y == index_select_rows(num.args[1], column(num.args[2], 2))
       IN  num' = [num EXCEPT !.op = "result",
                              !.result = [x |-> t_prob_c_x, y |-> t_prob_c_y,
                                          out |-> calc_ancestor_probability(t_prob_c_x,
                                                                            t_prob_c_y)]]
    /\ UNCHANGED <<loss, fwd>>
    /\ UNCHANGED <<samplervars, filtervars>>

\* _auto_scaled_mse(u, v)
AutoScaledMse ==
    /\ num.op = "input"
    /\ num.fn = "_auto_scaled_mse"
    /\ num' = [num EXCEPT !.op = "result",
                          !.result = auto_scaled_mse(num.args[1], num.args[2])]
    /\ UNCHANGED <<loss, fwd>>
    /\ UNCHANGED <<samplervars, filtervars>>

\* DictionaryFilter(includes=..., excludes=...)
FilterConstruct ==
    /\ flt.state = "new"
    /\ \E includes \in OptionalMaps, excludes \in OptionalMaps :
        flt' = DictionaryFilter_init(includes, excludes)
    /\ UNCHANGED verdict
    /\ UNCHANGED <<samplervars, lossvars>>

\* filter(sample) on a constructed filter
FilterCall ==
    /\ flt.state = "ready"
    /\ verdict.kind = "none"
    /\ \E sample \in Samples : verdict' = DictionaryFilter_call(flt, sample)
    /\ UNCHANGED flt
    /\ UNCHANGED <<samplervars, lossvars>>

\* the caller has used the verdict
FilterDone ==
    /\ verdict.kind # "none"
    /\ verdict' = NoVerdict
    /\ UNCHANGED flt
    /\ UNCHANGED <<samplervars, lossvars>>

----------------------------------------------------------------------------
(* Specifications *)

\* every combination of constructor arguments within the bounds
AllConfigs ==
    BaseConfigs(1..MaxEmbeddingBatchSize, {1, 2})
        \cup NegConfigs(1..MaxEmbeddingBatchSize, {1, 2},
                        {NoneVal} \cup {Some(n) : n \in 1..MaxNonHyponymyBatchSize},
                        {NoneVal, Some(0)}, Targets, BOOLEAN, BOOLEAN, BOOLEAN, DatasetTypes)

\* the constructor arguments the batch requests are explored under
BatchConfigs ==
    BaseConfigs({1, 2, 3, 4, 7}, {1, 2})
        \cup NegConfigs({4}, {1, 2}, {Some(1), Some(2), Some(4)}, {NoneVal, Some(0)},
                        AvailableOptions, BOOLEAN, BOOLEAN, BOOLEAN,
                        {"HyponymyDataset", "WordNetHyponymyDataset"})
        \cup NegConfigs({3}, {1, 2}, {NoneVal, Some(2)}, {NoneVal}, {"both", "sibling"},
                        {TRUE}, BOOLEAN, {TRUE}, DatasetTypes)

ConstructSampler == Construct(BatchConfigs)

Next ==
    ConstructSampler \/ IterNew \/ IterNext \/ GetItemCall \/ GetItemLoop \/ Discard

Spec == Init /\ [][Next]_vars

ConstructAny == Construct(AllConfigs)

NextInit == ConstructAny

SpecInit == Init /\ [][NextInit]_vars

\* the constructor arguments two callers of __getitem__ are explored under
PairConfigs ==
    BaseConfigs({3}, {1, 2})
        \cup NegConfigs({4}, {1, 2}, {Some(2)}, {NoneVal}, {"hyponym", "hypernym"},
                        {TRUE}, BOOLEAN, BOOLEAN, {"HyponymyDataset"})

ConstructShared == Construct(PairConfigs)

NextPair ==
    \/ ConstructShared
    \/ GetItemCall \/ GetItemLoop \/ Discard
    \/ OtherGetItemCall \/ OtherGetItemLoop \/ OtherDiscard

\* two callers of __getitem__ on one sampler, interleaved at the iterations
\* of their loops
SpecPair == Init /\ [][NextPair]_vars

NextLoss == LossConstruct \/ Forward \/ ForwardDone

\* the loss classes: construction and forward
SpecLoss == Init /\ [][NextLoss]_vars

\* a scoring or distance function is about to be called on an argument list
InitScore ==
    /\ self = Unconstructed
    /\ pc = "idle"
    /\ idx = 0
    /\ pos = 0
    /\ out = NoOutcome
    /\ loc = NoLocals
    /\ arg = 0
    /\ records = hyponymy_dataset
    /\ other = NoOther
    /\ loss = NoLossObject
    /\ fwd = NoForward
    /\ (SoftCodeLengthInput \/ AncestorProbabilityInput \/ AutoScaledMseInput)
    /\ flt = NoFilter
    /\ verdict = NoVerdict

NextScore == CalcSoftCodeLength \/ CalcAncestorProbability \/ AutoScaledMse

\* the scoring and distance functions, each applied to every argument list
SpecScore == InitScore /\ [][NextScore]_vars

NextFilter == FilterConstruct \/ FilterCall \/ FilterDone

\* the record filter: construction and calls
SpecFilter == Init /\ [][NextFilter]_vars

----------------------------------------------------------------------------
(* Properties of the batches *)

NoDuplicates(lst) == \A i, j \in DOMAIN lst : lst[i] = lst[j] => i = j

IndicesInRange(relation, n) ==
    \A k \in DOMAIN relation : relation[k][1] \in 0..(n - 1) /\ relation[k][2] \in 0..(n - 1)

WellIndexed(batch) ==
    /\ NoDuplicates(batch.entity)
    /\ IndicesInRange(batch.hyponymy_relation, Len(batch.entity))
    /\ IndicesInRange(batch.non_hyponymy_relation, Len(batch.entity))

\* C1: in every batch a sampler returns, by iteration or by index, with or
\* without negative sampling, as created and as returned after the optional
\* split, the entity list has no duplicates and every hypernym and hyponym
\* index of every relation triple lies in 0..len(entities)-1.
C1_EntitiesDistinctIndicesInRange ==
    out.kind = "batch" => WellIndexed(out.batch) /\ WellIndexed(loc.before_split)

\* a split batch with negative records was returned by iteration
C1_Witness ==
    /\ out.kind = "batch"
    /\ loc.via = "iter"
    /\ out.batch.is_split
    /\ Len(out.batch.hyponymy_relation) > 0
    /\ Len(out.batch.non_hyponymy_relation) > 0
    /\ Len(out.batch.entity) > 2

\* C2: every returned batch holds exactly embedding_batch_size entities,
\* provided the vocabulary has at least that many.
C2_EntityCountIsEmbeddingBatchSize ==
    (out.kind = "batch" /\ n_embeddings >= self.cfg.embedding_batch_size)
        => Len(out.batch.entity) = self.cfg.embedding_batch_size

\* the record list handed to _create_batch_from_hyponymy_samples
RawInput == loc.survivors \o loc.batch_non_hyponymy

\* C3: in the batch as created, the relation list has the length and order
\* of the raw record list; the k-th triple's indices resolve to the k-th
\* record's hypernym and hyponym and it carries that record's distance; so
\* records with the same hypernym carry the same hypernym index.
C3_RelationsMirrorRawRecords ==
    out.kind = "batch" =>
        LET b == loc.before_split
        IN  /\ b.hyponymy_relation_raw = RawInput
            /\ Len(b.hyponymy_relation) = Len(RawInput)
            /\ \A k \in DOMAIN b.hyponymy_relation :
                /\ b.hyponymy_relation[k][1] \in 0..(Len(b.entity) - 1)
                /\ b.hyponymy_relation[k][2] \in 0..(Len(b.entity) - 1)
                /\ b.entity[b.hyponymy_relation[k][1] + 1] = RawInput[k].hypernym
                /\ b.entity[b.hyponymy_relation[k][2] + 1] = RawInput[k].hyponym
                /\ b.hyponymy_relation[k][3] = RawInput[k].distance
            /\ \A k, m \in DOMAIN b.hyponymy_relation :
                RawInput[k].hypernym = RawInput[m].hypernym
                    => b.hyponymy_relation[k][1] = b.hyponymy_relation[m][1]

\* two records share the hypernym "animal", which is not the first entity,
\* and fillers were drawn
C3_Witness ==
    /\ out.kind = "batch"
    /\ Len(RawInput) = 2
    /\ RawInput[1].hypernym = "animal"
    /\ RawInput[2].hypernym = "animal"
    /\ RawInput[1].hyponym # RawInput[2].hyponym
    /\ loc.before_split.hyponymy_relation[1][1] = 2
    /\ Len(loc.before_split.entity) = 4

\* C4: row i of the embedding matrix is the embedding source's vector of
\* entities[i], and the matrix has len(entities) rows.
C4_EmbeddingRowsMatchEntities ==
    out.kind = "batch" =>
        /\ Len(out.batch.embedding) = Len(out.batch.entity)
        /\ \A i \in DOMAIN out.batch.entity :
            out.batch.embedding[i] = word_embedding(out.batch.entity[i])

\* a batch of four entities whose order is not the vocabulary's order
C4_Witness ==
    /\ out.kind = "batch"
    /\ Len(out.batch.entity) = 4
    /\ out.batch.entity[1] = "puppy"
    /\ out.batch.entity[4] = "animal"

\* the records of chunk c (from 0) of the dataset, for chunks of br records
ChunkRecords(br, c) ==
    [k \in 1..(Min(br * (c + 1), n_hyponymy) - Min(br * c, n_hyponymy)) |->
        hyponymy_dataset[br * c + k]]

BothEncodable(sample) == is_encodable(sample.hyponym) /\ is_encodable(sample.hypernym)

\* C5: a batch of the base sampler is built from exactly the records of one
\* chunk whose hyponym and hypernym are both encodable, in chunk order; that
\* list is not empty, so a fully filtered chunk yields no batch, and no
\* record with an unencodable entity is in an emitted batch.
C5_BaseBatchIsFilteredChunk ==
    (out.kind = "batch" /\ self.cfg.kind = "base") =>
        /\ loc.chunk \in 0..(n_chunks(self.cfg.hyponymy_batch_size) - 1)
        /\ out.batch.hyponymy_relation_raw
              = SelectSeq(ChunkRecords(self.cfg.hyponymy_batch_size, loc.chunk), BothEncodable)
        /\ Len(out.batch.hyponymy_relation_raw) > 0
        /\ \A k \in DOMAIN out.batch.hyponymy_relation_raw :
              BothEncodable(out.batch.hyponymy_relation_raw[k])

\* iteration with chunks of two passed the fully filtered chunk 1 and built
\* a batch from the one surviving record of chunk 2
C5_Witness ==
    /\ out.kind = "batch"
    /\ self.cfg.kind = "base"
    /\ self.cfg.hyponymy_batch_size = 2
    /\ loc.via = "iter"
    /\ loc.chunk = 2
    /\ Len(loc.batch_hyponymy_b) = 2
    /\ Len(out.batch.hyponymy_relation_raw) = 1

----------------------------------------------------------------------------
(* Properties of construction *)

RatioViolated(cfg) == cfg.embedding_batch_size < 2 * cfg.hyponymy_batch_size

\* C6: a constructor call of either class with embedding_batch_size <
\* 2 * hyponymy_batch_size fails with an assertion error before any attribute
\* is assigned, such an object never serves a batch request, and the check
\* rejects no call with embedding_batch_size >= 2 * hyponymy_batch_size.
C6_RatioCheckedFirst ==
    /\ (self.state # "new" /\ RatioViolated(self.cfg)) =>
            /\ self.state = "failed"
            /\ self.error = "AssertionError"
            /\ self.check = "embedding_batch_size"
            /\ self.assigned = {}
            /\ out.kind = "none" /\ pc = "idle" /\ pos = 0
    /\ self.check = "embedding_batch_size" => RatioViolated(self.cfg)
    /\ out.kind = "batch" => ~RatioViolated(self.cfg)

\* the negative-sampling constructor was rejected by the inherited check
C6_Witness ==
    /\ self.state = "failed"
    /\ self.cfg.kind = "neg"
    /\ RatioViolated(self.cfg)
    /\ self.cfg.non_hyponymy_batch_size # NoneVal

NotMultiple(cfg) ==
    /\ cfg.non_hyponymy_batch_size # NoneVal
    /\ cfg.non_hyponymy_batch_size[1] % cfg.hyponymy_batch_size # 0

PoolTooSmall(cfg) ==
    /\ ~cfg.limit_hyponym_candidates_within_minibatch
    /\ cfg.non_hyponymy_batch_size # NoneVal
    /\ cfg.embedding_batch_size
          < 2 * cfg.hyponymy_batch_size + cfg.non_hyponymy_batch_size[1]

OddBoth(cfg) ==
    /\ cfg.non_hyponymy_relation_target = "both"
    /\ cfg.non_hyponymy_batch_size # NoneVal
    /\ cfg.non_hyponymy_batch_size[1] % cfg.hyponymy_batch_size = 0
    /\ (cfg.non_hyponymy_batch_size[1] \div cfg.hyponymy_batch_size) % 2 = 1

BadTarget(cfg) == cfg.non_hyponymy_relation_target \notin {"hyponym", "hypernym", "both"}

ListedRejection(cfg) == NotMultiple(cfg) \/ PoolTooSmall(cfg) \/ OddBoth(cfg) \/ BadTarget(cfg)

\* C7 as stated: the negative-sampling constructor, given an integer
\* non_hyponymy_batch_size, is rejected exactly in the four listed cases.
C7_RejectedExactlyInListedCases ==
    (self.cfg.kind = "neg" /\ self.state # "new" /\ self.cfg.non_hyponymy_batch_size # NoneVal)
        => (self.state = "failed" <=> ListedRejection(self.cfg))

\* C7 amended: the negative-sampling constructor is rejected in each of the
\* four listed cases, and also when embedding_batch_size <
\* 2 * hyponymy_batch_size, when non_hyponymy_batch_size is None, and when the
\* hyponymy dataset is of neither supported type; it is accepted otherwise.
C7_RejectedExactlyInListedAndInheritedCases ==
    (self.cfg.kind = "neg" /\ self.state # "new")
        => (self.state = "failed" <=>
                \/ ListedRejection(self.cfg)
                \/ RatioViolated(self.cfg)
                \/ self.cfg.non_hyponymy_batch_size = NoneVal
                \/ self.cfg.dataset_type \notin {"HyponymyDataset", "WordNetHyponymyDataset"})

\* a call with an unrestricted candidate pool was rejected because the
\* embedding batch has no room for the negative records
C7_Witness ==
    /\ self.state = "failed"
    /\ self.cfg.kind = "neg"
    /\ ~RatioViolated(self.cfg)
    /\ PoolTooSmall(self.cfg)
    /\ ~NotMultiple(self.cfg) /\ ~OddBoth(self.cfg) /\ ~BadTarget(self.cfg)
    /\ self.cfg.dataset_type = "HyponymyDataset"

----------------------------------------------------------------------------
(* Properties of splitting and of negative sampling *)

\* the list of pairs <<relation[k], raw[k]>>
Zip(relation, raw) == [k \in DOMAIN relation |-> <<relation[k], raw[k]>>]

IsHyponymyPair(p) == p[1][3] > 0
IsNonHyponymyPair(p) == p[1][3] <= 0

\* C8: after the split, hyponymy_relation holds exactly the triples of the
\* batch as created with distance > 0 and non_hyponymy_relation exactly those
\* with distance <= 0, each in the order of the batch as created, and the
\* k-th raw record of a sublist is the raw record of its k-th triple.
C8_SplitPartitionsByDistance ==
    (out.kind = "batch" /\ out.batch.is_split) =>
        LET created == Zip(loc.before_split.hyponymy_relation,
                           loc.before_split.hyponymy_relation_raw)
        IN  /\ Len(out.batch.hyponymy_relation) = Len(out.batch.hyponymy_relation_raw)
            /\ Len(out.batch.non_hyponymy_relation) = Len(out.batch.non_hyponymy_relation_raw)
            /\ Zip(out.batch.hyponymy_relation, out.batch.hyponymy_relation_raw)
                  = SelectSeq(created, IsHyponymyPair)
            /\ Zip(out.batch.non_hyponymy_relation, out.batch.non_hyponymy_relation_raw)
                  = SelectSeq(created, IsNonHyponymyPair)
            /\ Len(out.batch.hyponymy_relation) + Len(out.batch.non_hyponymy_relation)
                  = Len(loc.before_split.hyponymy_relation)

\* a split batch with two hyponymy triples and two negative triples of
\* distance exactly 0
C8_Witness ==
    /\ out.kind = "batch"
    /\ out.batch.is_split
    /\ Len(out.batch.hyponymy_relation) = 2
    /\ Len(out.batch.non_hyponymy_relation) = 2
    /\ out.batch.non_hyponymy_relation[1][3] = 0
    /\ out.batch.non_hyponymy_relation_raw[1].hypernym # "animal"

\* M = non_hyponymy_batch_size / hyponymy_batch_size
NegativesPerPair(cfg) == cfg.non_hyponymy_batch_size[1] \div cfg.hyponymy_batch_size

\* the oracle calls the claim describes for one surviving pair
DescribedCalls(cfg, pair) ==
    CASE cfg.non_hyponymy_relation_target = "hyponym" ->
            <<OracleCall("sample_random_hyponyms", pair.hypernym, NegativesPerPair(cfg))>>
      [] cfg.non_hyponymy_relation_target = "hypernym" ->
            <<OracleCall("sample_random_hypernyms", pair.hyponym, NegativesPerPair(cfg))>>
      [] cfg.non_hyponymy_relation_target = "both" ->
            <<OracleCall("sample_random_hyponyms", pair.hypernym, NegativesPerPair(cfg) \div 2),
              OracleCall("sample_random_hypernyms", pair.hyponym, NegativesPerPair(cfg) \div 2)>>

RECURSIVE DescribedCallsFrom(_, _, _)
DescribedCallsFrom(cfg, pairs, k) ==
    IF k > Len(pairs) THEN <<>>
    ELSE DescribedCalls(cfg, pairs[k]) \o DescribedCallsFrom(cfg, pairs, k + 1)

RECURSIVE SumOfSizes(_, _)
SumOfSizes(calls, k) ==
    IF k > Len(calls) THEN 0 ELSE calls[k].size + SumOfSizes(calls, k + 1)

\* a request of the negative-sampling sampler over the generic taxonomy got
\* past the emptiness test
SampledRequest ==
    /\ self.cfg.kind = "neg"
    /\ self.taxonomy = "BasicTaxonomy"
    /\ loc.via # "none"

\* C9, its part on what is sampled: the oracle is asked, pair by pair over
\* the surviving pairs only, for M negatives on the side the target names or
\* M/2 on each side; a batch holds the surviving records first and the
\* negative records after them, at most non_hyponymy_batch_size of these.
C9_SamplingAsDescribed ==
    SampledRequest =>
        /\ \A k \in DOMAIN loc.survivors : BothEncodable(loc.survivors[k])
        /\ loc.calls = DescribedCallsFrom(self.cfg, loc.survivors, 1)
        /\ Len(loc.batch_non_hyponymy) <= SumOfSizes(loc.calls, 1)
        /\ Len(loc.batch_non_hyponymy) <= self.cfg.non_hyponymy_batch_size[1]
        /\ out.kind = "batch" =>
              loc.before_split.hyponymy_relation_raw = loc.survivors \o loc.batch_non_hyponymy

\* C9, its part on short results: when the oracle returned fewer negatives
\* than requested (the vocabulary being large enough for the batch), the
\* request still ends in a batch.
C9_ShortResultStillEmitted ==
    (/\ SampledRequest
     /\ n_embeddings >= self.cfg.embedding_batch_size
     /\ Len(loc.batch_non_hyponymy) < SumOfSizes(loc.calls, 1))
        => out.kind = "batch"

\* C9: negative sampling is as described and a short or empty oracle result
\* still ends in an emitted batch.
C9_NegativeSampling == C9_SamplingAsDescribed /\ C9_ShortResultStillEmitted

\* the other checks of the negative-sampling constructor all pass
OtherwiseValid(cfg) ==
    /\ ~RatioViolated(cfg)
    /\ cfg.non_hyponymy_batch_size # NoneVal
    /\ ~ListedRejection(cfg)

\* C10: over a WordNetHyponymyDataset, a batch request of the negative-
\* sampling sampler that finds a chunk with a surviving pair ends in
\* NotImplementedError and never in a batch; a hyponymy dataset of neither
\* supported type makes construction fail, with NotImplementedError when no
\* earlier check of the constructor fails.
C10_UnsupportedTaxonomyIsSignalled ==
    /\ (self.cfg.kind = "neg" /\ self.cfg.dataset_type = "WordNetHyponymyDataset"
            /\ out.kind # "none") =>
            \/ out.kind = "error" /\ out.error = "NotImplementedError"
            \/ out.kind = "stop" /\ loc.via = "none"
    /\ (self.cfg.kind = "neg" /\ self.cfg.dataset_type = "object" /\ self.state # "new") =>
            /\ self.state = "failed"
            /\ OtherwiseValid(self.cfg) => self.error = "NotImplementedError"

\* a request by index over a WordNetHyponymyDataset skipped a fully filtered
\* chunk, reached negative sampling and raised NotImplementedError
C10_Witness ==
    /\ self.cfg.kind = "neg"
    /\ self.cfg.dataset_type = "WordNetHyponymyDataset"
    /\ out.kind = "error"
    /\ out.error = "NotImplementedError"
    /\ loc.via = "getitem"
    /\ Len(loc.survivors) = 1
    /\ loc.chunk = 4

----------------------------------------------------------------------------
(* Properties of requests by index *)

\* chunk j has a record whose hyponym and hypernym are both encodable
IsLiveChunk(br, j) ==
    \E k \in DOMAIN ChunkRecords(br, j) : BothEncodable(ChunkRecords(br, j)[k])

\* some chunk at or after i is live
LiveChunkFrom(br, i) == \E j \in i..(n_chunks(br) - 1) : IsLiveChunk(br, j)

\* j is the first live chunk at or after i
IsFirstLiveChunkFrom(br, i, j) ==
    /\ j >= i
    /\ IsLiveChunk(br, j)
    /\ \A c \in i..(j - 1) : ~IsLiveChunk(br, c)

\* the last request was by index and has left the loop of __getitem__
GetItemEnded == pc = "idle" /\ loc.via = "getitem"

\* C12, as stated: a call of __getitem__ that has left its loop has returned
\* a batch, built from the first chunk at or after its index that has a
\* record with both entities encodable.
C12_EndedCallReturnedBatch ==
    GetItemEnded =>
        /\ out.kind = "batch"
        /\ IsFirstLiveChunkFrom(self.cfg.hyponymy_batch_size, arg, loc.chunk)

\* a call in its loop has passed only chunks without a surviving record
C12_LoopPassedOnlyFilteredChunks ==
    pc = "getitem" =>
        /\ arg <= idx
        /\ \A c \in arg..(idx - 1) : ~IsLiveChunk(self.cfg.hyponymy_batch_size, c)

\* a call that has left its loop worked on the first live chunk at or after
\* its index, on that chunk's surviving records, and either returned the
\* batch built from them or raised out of negative sampling or batch creation
C12_EndedCallUsedFirstLiveChunk ==
    GetItemEnded =>
        /\ IsFirstLiveChunkFrom(self.cfg.hyponymy_batch_size, arg, loc.chunk)
        /\ loc.survivors
              = SelectSeq(ChunkRecords(self.cfg.hyponymy_batch_size, loc.chunk), BothEncodable)
        /\ out.kind \in {"batch", "error"}
        /\ out.kind = "batch" => loc.before_split.hyponymy_relation_raw = RawInput
        /\ out.kind = "error" =>
              out.error \in {"NotImplementedError", "KeyError", "ValueError"}

\* a step of a call with no live chunk at or after its current index leaves
\* the call in its loop, without an outcome
C12_NoLiveChunkStaysInLoop ==
    (pc = "getitem" /\ ~LiveChunkFrom(self.cfg.hyponymy_batch_size, idx))
        => (pc' = "getitem" /\ out' = NoOutcome)

\* a step of a call with a live chunk at or after its current index either
\* leaves the loop or moves on to the next chunk with the live chunk still
\* ahead: the call leaves its loop after at most as many iterations as there
\* are chunks up to the live one
C12_LiveChunkIsReached ==
    (pc = "getitem" /\ LiveChunkFrom(self.cfg.hyponymy_batch_size, idx))
        => \/ GetItemEnded'
           \/ /\ pc' = "getitem"
              /\ idx' = idx + 1
              /\ LiveChunkFrom(self.cfg.hyponymy_batch_size, idx')

\* the live chunk a call in its loop is heading for lies within the indices
\* the model follows
C12_LiveChunkWithinMaxIdx ==
    (pc = "getitem" /\ LiveChunkFrom(self.cfg.hyponymy_batch_size, idx))
        => \E j \in idx..MaxIdx : IsLiveChunk(self.cfg.hyponymy_batch_size, j)

\* C12, amended: __getitem__(idx) leaves its loop if and only if some chunk
\* j >= idx has a record with both entities encodable; it then works on the
\* surviving records of the smallest such j and returns the batch built from
\* them unless negative sampling or batch creation raises; when there is no
\* such chunk the call stays in its loop, neither returning nor raising.
C12_GetItemEndsIffLiveChunk ==
    /\ [](/\ C12_LoopPassedOnlyFilteredChunks
          /\ C12_EndedCallUsedFirstLiveChunk
          /\ C12_LiveChunkWithinMaxIdx)
    /\ [][C12_NoLiveChunkStaysInLoop /\ C12_LiveChunkIsReached]_vars

\* a call entered at the fully filtered chunk 2 of single-record chunks went
\* on to chunk 4 and returned its batch
C12_Witness ==
    /\ GetItemEnded
    /\ out.kind = "batch"
    /\ self.cfg.hyponymy_batch_size = 1
    /\ arg = 2
    /\ loc.chunk = 4

----------------------------------------------------------------------------
(* Properties of what a batch request leaves behind *)

\* a step of a constructed sampler leaves its configuration, its fields and
\* its taxonomy as they are, and the hyponymy dataset holds the same records
C13_SharedObjectsUnchanged ==
    /\ self.state = "ready" => self' = self
    /\ records' = records

\* the second caller has left the loop of its __getitem__ call
OtherEnded == other.pc = "idle" /\ other.kind # "none"

\* each caller that has left its loop read the chunk the dataset was
\* constructed with and kept the records of it a call running alone keeps;
\* the list the relation source returned is as it was returned
C13_SeenAsAlone ==
    /\ records = hyponymy_dataset
    /\ GetItemEnded =>
          /\ loc.batch_hyponymy_b = ChunkRecords(self.cfg.hyponymy_batch_size, loc.chunk)
          /\ loc.survivors = SelectSeq(loc.batch_hyponymy_b, BothEncodable)
          /\ IsFirstLiveChunkFrom(self.cfg.hyponymy_batch_size, arg, loc.chunk)
    /\ OtherEnded =>
          /\ other.survivors
                = SelectSeq(ChunkRecords(self.cfg.hyponymy_batch_size, other.chunk),
                            BothEncodable)
          /\ IsFirstLiveChunkFrom(self.cfg.hyponymy_batch_size, other.arg, other.chunk)

----------------------------------------------------------------------------
(* Properties of the loss classes *)

\* C11: for every loss class, a constructor call with a distance-metric name
\* outside the supported set fails, with AttributeError where the class
\* takes the name; a constructed loss object has a supported metric and a
\* distance method the class defines, and it is that method forward uses;
\* a constructed EntailmentProbabilityLoss has the binary-cross-entropy
\* metric whatever the caller passed.
C11_UnknownMetricFailsAtConstruction ==
    /\ (loss.state # "new" /\ loss.given # NoneVal /\ loss.given[1] \notin MetricNames)
          => /\ loss.state = "failed"
             /\ loss.func_distance = "None"
             /\ loss.class # "EntailmentProbabilityLoss" => loss.error = "AttributeError"
    /\ loss.state = "ready"
          => /\ loss.distance_metric \in MetricNames
             /\ loss.func_distance \in DistanceMethods
    /\ (loss.state = "ready" /\ loss.class = "EntailmentProbabilityLoss")
          => /\ loss.distance_metric = "binary-cross-entropy"
             /\ loss.func_distance = "_bce"
    /\ fwd.kind = "returned"
          => /\ loss.state = "ready"
             /\ fwd.func_distance = loss.func_distance

\* the construction of an LCA-length loss with the unknown name "rmse" has
\* failed with AttributeError
C11_Witness ==
    /\ loss.state = "failed"
    /\ loss.class = "LowestCommonAncestorLengthPredictionLoss"
    /\ loss.given = Some("rmse")
    /\ loss.error = "AttributeError"
    /\ fwd.kind = "none"

\* every probability of the tensor lies in [1E-5, 1 - 1E-5]
InClampRange(t) ==
    \A b \in DOMAIN t : \A n \in DOMAIN t[b] : \A m \in DOMAIN t[b][n] :
        clamp_min <= t[b][n][m] /\ t[b][n][m] <= clamp_max

\* C14: in every forward call, of every loss variant, each tensor handed to
\* the scoring function has all its probabilities in [1E-5, 1 - 1E-5]: no
\* scoring function receives an exact 0 or 1.
C14_ScoringInputsClamped ==
    fwd.kind = "returned" => \A k \in DOMAIN fwd.scored : InClampRange(fwd.scored[k])

\* the same for the two variants whose forward calls torch.clamp
C14_ClampingVariantsClamp ==
    (/\ fwd.kind = "returned"
     /\ loss.class \in {"HyponymyScoreLoss", "EntailmentProbabilityLoss"})
        => \A k \in DOMAIN fwd.scored : InClampRange(fwd.scored[k])

----------------------------------------------------------------------------
(* Properties of the scoring and distance functions *)

SoftCodeLengthResult == num.op = "result" /\ num.fn = "calc_soft_code_length"

\* the length probabilities of the formula for the digit-0 probabilities p0
\* of one entity: Pr(length = l) = p0[l] * prod_{k < l} (1 - p0[k]), with 1
\* for p0[n_digits]; numerators over Denominator^(n_digits + 1), l from 0
LengthProbability(p0, l) ==
    (IF l = Len(p0) THEN Denominator ELSE p0[l + 1])
        * ProductTo([k \in 1..Len(p0) |-> Denominator - p0[k]], l)
        * Pow(Denominator, Len(p0) - l)

\* what C15 says of one vector of length probabilities and its expectation,
\* for an entity with digit-0 probabilities p0: probs and value are the
\* numerators the function computed, over den
LengthsAsStated(p0, probs, value, den) ==
    /\ Len(probs) = Len(p0) + 1
    /\ \A l \in 0..Len(p0) :
          /\ probs[l + 1] >= 0
          /\ probs[l + 1] * Pow(Denominator, Len(p0) + 1) = LengthProbability(p0, l) * den
    /\ Sum(probs) = den
    /\ 0 <= value /\ value <= Len(p0) * den
    /\ (\A k \in DOMAIN p0 : p0[k] = 0) => value = Len(p0) * den
    /\ p0[1] = Denominator => value = 0

\* C15: for every entity of the tensor calc_soft_code_length is given, the
\* length probabilities it computes from the entity's digit-0 probabilities
\* are those of the formula, non-negative and of sum 1, and the soft code
\* length lies in [0, n_digits], is n_digits when every digit-0 probability
\* is 0 and is 0 when the first is 1.
C15_SoftCodeLengthInRange ==
    SoftCodeLengthResult =>
        LET t == num.args[1]
            r == num.result
        IN  /\ r.error = NoError
            /\ \A b \in DOMAIN t :
                  /\ b \in DOMAIN r.ret
                  /\ LengthsAsStated(index_select_zero(t)[b], r.t_p_at_n[b], r.ret[b], r.den)

\* the same for tensors of at least two digits
C15_HoldsFromTwoDigits ==
    (SoftCodeLengthResult /\ Len(num.args[1][1]) >= 2) =>
        LET t == num.args[1]
            r == num.result
        IN  /\ r.error = NoError
            /\ \A b \in DOMAIN t :
                  /\ b \in DOMAIN r.ret
                  /\ LengthsAsStated(index_select_zero(t)[b], r.t_p_at_n[b], r.ret[b], r.den)

AncestorProbabilityResult == num.op = "result" /\ num.fn = "calc_ancestor_probability"

\* the call was given the same distributions as hypernym and as hyponym
IdenticalDistributions == AncestorProbabilityResult /\ num.result.x = num.result.y

\* the digit-0 probabilities handed to the call, row by row
HandedDigitZero == index_select_zero(num.result.x)

EveryDigitZeroIs(values) ==
    \A i \in DOMAIN HandedDigitZero : \A n \in DOMAIN HandedDigitZero[i] :
        HandedDigitZero[i][n] \in values

\* sum over the rows and digits of p0 * (1 - p0): numerator over Denominator^2
SumOfSelfBoundaryTerms ==
    Sum([i \in DOMAIN HandedDigitZero |->
            Sum([n \in DOMAIN HandedDigitZero[i] |->
                    HandedDigitZero[i][n] * (Denominator - HandedDigitZero[i][n])])])

\* C16 as stated: for identical distributions whose digit-0 probability is 0
\* at every digit, the ancestor probability is near 1 (here: at least 1/2).
C16_SelfAncestorProbabilityNearOne ==
    (IdenticalDistributions /\ EveryDigitZeroIs({0})) =>
        \A i \in DOMAIN num.result.out.t_prob :
            2 * num.result.out.t_prob[i] >= num.result.out.den

\* C16 amended: for identical distributions the ancestor probability is
\* between 0 and the sum of p0 * (1 - p0) over the digits handed to the call,
\* so it is exactly 0 when every digit-0 probability is exactly 0 or 1, and
\* near 0 (never near 1) when they are near 0.
C16_SelfAncestorProbabilityNearZero ==
    IdenticalDistributions =>
        \A i \in DOMAIN num.result.out.t_prob :
            /\ 0 <= num.result.out.t_prob[i]
            /\ num.result.out.t_prob[i] * Denominator * Denominator
                  <= SumOfSelfBoundaryTerms * num.result.out.den
            /\ EveryDigitZeroIs({0, Denominator}) => num.result.out.t_prob[i] = 0

\* two pairs of two digits each, the same rows on both sides, no digit-0
\* probability above 0: both ancestor probabilities are 0
C16_Witness ==
    /\ IdenticalDistributions
    /\ EveryDigitZeroIs({0})
    /\ Len(num.result.x) = 2
    /\ Len(num.result.x[1]) = 2
    /\ num.result.out.t_prob = <<0, 0>>

AutoScaledMseResult == num.op = "result" /\ num.fn = "_auto_scaled_mse"

SumOfProducts(u, v) == Sum([i \in DOMAIN u |-> u[i] * v[i]])

\* the example of the text: u = [2, 2, 2], v = [1, 1, 1]
ExampleOfExactFit == AutoScaledMseResult /\ num.args = <<(<<2, 2, 2>>), (<<1, 1, 1>>)>>

\* C17 as stated: the fitted factor is sum(u*v) / sum(u^2), mse(scale*u, v)
\* is returned when it is positive and the scaled MSE exactly when it is
\* not, and for u = [2, 2, 2], v = [1, 1, 1] the factor is 0.5 and the loss 0.
C17_LeastSquaresFactorExact ==
    AutoScaledMseResult =>
        LET u == num.args[1]
            v == num.args[2]
            r == num.result
        IN  /\ r.scale.num * SumOfProducts(u, u) = r.scale.den * SumOfProducts(u, v)
            /\ r.branch = "mse_loss(scale*u, v)" <=> r.scale.num > 0
            /\ r.branch = "_scaled_mse(u, v)" <=> r.scale.num <= 0
            /\ ExampleOfExactFit =>
                  /\ 2 * r.scale.num = r.scale.den
                  /\ \A i \in DOMAIN r.loss.residual : r.loss.residual[i] = 0

\* C17 amended: the fitted factor is sum(u*v) / (sum(u^2) + 1E-6),
\* mse(scale*u, v) is returned when it is positive and the scaled MSE exactly
\* when it is not, and for u = [2, 2, 2], v = [1, 1, 1] the factor is
\* 6 / 12.000001, just below 0.5, and every residual scale*u[i] - v[i] is
\* -1 / 12000001, so the loss is positive and below 1E-13.
C17_RegularisedLeastSquaresFactor ==
    AutoScaledMseResult =>
        LET u == num.args[1]
            v == num.args[2]
            r == num.result
        IN  /\ r.scale.num = SumOfProducts(u, v) * EpsilonInverse
            /\ r.scale.den = SumOfProducts(u, u) * EpsilonInverse + 1
            /\ r.branch = "mse_loss(scale*u, v)" <=> r.scale.num > 0
            /\ r.branch = "_scaled_mse(u, v)" <=> r.scale.num <= 0
            /\ r.branch = "mse_loss(scale*u, v)" =>
                  /\ r.loss.den = r.scale.den
                  /\ r.loss.residual = [i \in DOMAIN u |->
                                           r.scale.num * u[i] - r.scale.den * v[i]]
            /\ ExampleOfExactFit =>
                  /\ r.scale.den - 2 * r.scale.num = 1
                  /\ r.loss.residual = <<-1, -1, -1>>
                  /\ r.loss.den = 12 * EpsilonInverse + 1

\* the example has been evaluated, on the mse branch
C17_Witness ==
    /\ ExampleOfExactFit
    /\ num.result.branch = "mse_loss(scale*u, v)"
    /\ num.result.scale = [num |-> 6 * EpsilonInverse, den |-> 12 * EpsilonInverse + 1]

\* the fallback has been taken for a prediction that points away from the
\* target
C17_FallbackWitness ==
    /\ AutoScaledMseResult
    /\ num.args = <<(<<2, 2, 2>>), (<<-1, -1, -1>>)>>
    /\ num.result.branch = "_scaled_mse(u, v)"

----------------------------------------------------------------------------
(* Properties of DictionaryFilter *)

ExactlyOneGiven == (flt.includes # NoneVal) # (flt.excludes # NoneVal)

\* the map of a constructed filter
GivenMap == IF flt.includes # NoneVal THEN flt.includes[1] ELSE flt.excludes[1]

\* some listed field's value in the sample is in that field's set
SomeListedValueIn(items, sample) ==
    \E k \in DOMAIN items :
        /\ items[k][1] \in DOMAIN sample
        /\ sample[items[k][1]] \in items[k][2]

\* item k names a field the sample lacks, and no earlier item ended the loop
ReadsMissingField(items, sample) ==
    \E k \in DOMAIN items :
        /\ items[k][1] \notin DOMAIN sample
        /\ \A j \in 1..(k - 1) :
              /\ items[j][1] \in DOMAIN sample
              /\ sample[items[j][1]] \notin items[j][2]

\* the verdict of the filter of the other mode over the same map
CounterpartVerdict ==
    DictionaryFilter_call(
        IF flt.includes # NoneVal
        THEN FilterObject("ready", NoneVal, Some(GivenMap), NoError)
        ELSE FilterObject("ready", Some(GivenMap), NoneVal, NoError),
        verdict.sample)

Constructed ==
    /\ flt.state # "new"
    /\ flt.state = "ready" <=> ExactlyOneGiven
    /\ flt.state = "failed" <=> flt.error = "AssertionError"

\* C18 as stated: construction succeeds iff exactly one of includes and
\* excludes is given and fails with an assertion otherwise; a constructed
\* filter returns a boolean for every sample (include: True iff some listed
\* field's value is in its set; exclude: True iff none is), and the filter of
\* the other mode over the same map returns the opposite.
C18_BooleanForEverySample ==
    /\ flt.state # "new" => Constructed
    /\ verdict.kind # "none" =>
          /\ verdict.kind = "returned"
          /\ verdict.value = IF flt.includes # NoneVal
                             THEN SomeListedValueIn(GivenMap, verdict.sample)
                             ELSE ~SomeListedValueIn(GivenMap, verdict.sample)
          /\ CounterpartVerdict.kind = "returned"
          /\ CounterpartVerdict.value = ~verdict.value

\* C18 amended: construction as stated; a constructed filter raises KeyError
\* exactly when its loop reads a listed field that the sample lacks before
\* an earlier item has ended it, and otherwise returns the stated boolean;
\* the filter of the other mode over the same map raises on the same samples
\* and returns the opposite on all others.
C18_BooleanUnlessFieldMissing ==
    /\ flt.state # "new" => Constructed
    /\ verdict.kind # "none" =>
          /\ verdict.kind \in {"returned", "raised"}
          /\ verdict.kind = "raised" <=> ReadsMissingField(GivenMap, verdict.sample)
          /\ verdict.kind = "raised" => verdict.error = "KeyError"
          /\ CounterpartVerdict.kind = verdict.kind
          /\ verdict.kind = "returned" =>
                /\ verdict.value = IF flt.includes # NoneVal
                                   THEN SomeListedValueIn(GivenMap, verdict.sample)
                                   ELSE ~SomeListedValueIn(GivenMap, verdict.sample)
                /\ CounterpartVerdict.value = ~verdict.value

\* an exclude filter over two fields has rejected a sample that has both
\* fields, and the include filter over the same map accepts it
C18_Witness ==
    /\ flt.state = "ready"
    /\ flt.excludes # NoneVal
    /\ Len(GivenMap) = 2
    /\ verdict.kind = "returned"
    /\ DOMAIN verdict.sample = FieldNames
    /\ ~verdict.value
    /\ CounterpartVerdict.value

\* a construction with neither argument has been refused
C18_RefusedWitness ==
    /\ flt.state = "failed"
    /\ flt.includes = NoneVal
    /\ flt.excludes = NoneVal

----------------------------------------------------------------------------
(* Properties the text implies without stating them *)

\* every record handed to batch creation has two encodable entities, and the
\* request did not fail on an embedding lookup
LookupSafe ==
    /\ \A k \in DOMAIN RawInput : BothEncodable(RawInput[k])
    /\ ~(out.kind = "error" /\ out.error = "KeyError")

\* C19: in a request of the negative-sampling sampler, every entity that
\* reaches index assignment is encodable, the entities of the synthesized
\* negative records included, also when the candidate pool is not limited
\* to the mini-batch: the request never fails on an embedding lookup.
C19_IndexedEntitiesEncodable ==
    (self.cfg.kind = "neg" /\ loc.via # "none") => LookupSafe

\* the same with the candidate pool limited to the mini-batch
C19_HoldsWithinMinibatch ==
    (/\ self.cfg.kind = "neg"
     /\ loc.via # "none"
     /\ self.cfg.limit_hyponym_candidates_within_minibatch) => LookupSafe

\* C20: with non_hyponymy_batch_size left at None and every other argument
\* valid, the negative-sampling constructor succeeds and the number of
\* negatives per pair is hyponymy_batch_size / hyponymy_batch_size = 1.
C20_DefaultNonHyponymyBatchSize ==
    (/\ self.state # "new"
     /\ self.cfg.kind = "neg"
     /\ self.cfg.non_hyponymy_batch_size = NoneVal
     /\ ~RatioViolated(self.cfg)
     /\ self.cfg.non_hyponymy_relation_target \in {"hyponym", "hypernym"}
     /\ self.cfg.dataset_type \in {"HyponymyDataset", "WordNetHyponymyDataset"})
        => /\ self.state = "ready"
           /\ self.non_hyponymy_multiple = Some(1)


\* the expectation of the code length of one entity with digit-0
\* probabilities p0: sum over l of l * Pr(length = l), the numerator over
\* Denominator^(n_digits + 1)
OwnSoftCodeLength(p0) == Sum([l \in 1..Len(p0) |-> l * LengthProbability(p0, l)])

\* the call returned one value for each entity of t, the i-th the expectation
\* over entity i's own digits, and ran its cumulative product over as many
\* digits as t has
OneValuePerEntity(t, r) ==
    /\ r.error = NoError
    /\ Len(r.ret) = Len(t)
    /\ r.n_digits = Len(t[1])
    /\ \A i \in DOMAIN t :
          r.ret[i] * Pow(Denominator, Len(t[1]) + 1)
              = OwnSoftCodeLength(index_select_zero(t)[i]) * r.den

\* C21: for every tensor of shape (N, n_digits, n_ary), N = 1 and
\* n_digits = 1 included, calc_soft_code_length returns exactly N values, the
\* i-th computed from entity i's own n_digits digit-0 probabilities, the
\* cumulative product running over the digit axis.
C21_OneValuePerEntity ==
    SoftCodeLengthResult => OneValuePerEntity(num.args[1], num.result)

\* the same for tensors of at least two digits, a single entity included
C21_HoldsFromTwoDigits ==
    (SoftCodeLengthResult /\ Len(num.args[1][1]) >= 2)
        => OneValuePerEntity(num.args[1], num.result)

\* two entities of one digit each: the batch axis has been read as the digit
\* axis and one value has come back for both
C21_BatchAxisReadAsDigitAxis ==
    /\ SoftCodeLengthResult
    /\ Len(num.args[1]) = 2
    /\ Len(num.args[1][1]) = 1
    /\ num.result.n_digits = 2
    /\ Len(num.result.ret) = 1

====
